---------------------------- MODULE Spec2Model ----------------------------
(***************************************************************************)
(* Model of the odds / EV / Kelly / arbitrage engine of                    *)
(* frontend/src/utils/mockData.ts (imported by the UI as                   *)
(* utils/calculations).                                                    *)
(*                                                                         *)
(* Every value of the engine is a JavaScript `number`, an IEEE-754 binary64*)
(* value.  The arithmetic below is binary64 arithmetic with round to       *)
(* nearest, ties to even, so that an equality or a comparison the code     *)
(* makes has, in the model, the outcome it has in the program.  A finite   *)
(* number is sign * m * 2^e with m a 53-bit natural (or 0); m is held as a *)
(* little-endian sequence of 15-bit limbs because it exceeds the 32-bit    *)
(* integers of TLC.  Exponent overflow and subnormals are not modelled: no *)
(* input of the bounded domains comes near them.                           *)
(***************************************************************************)
EXTENDS Integers, Sequences, FiniteSets, Bags, TLC

(***************************************************************************)
(* Naturals of any size: little-endian limb sequences, no leading zero.    *)
(***************************************************************************)
LimbBits == 15
LimbBase == 2 ^ LimbBits

RECURSIVE BNorm(_)
BNorm(a) ==
  IF a = <<>> THEN <<>>
  ELSE IF a[Len(a)] = 0 THEN BNorm(SubSeq(a, 1, Len(a) - 1))
  ELSE a

RECURSIVE BFromNat(_)
BFromNat(n) ==
  IF n = 0 THEN <<>> ELSE <<n % LimbBase>> \o BFromNat(n \div LimbBase)

RECURSIVE BAddC(_, _, _)
BAddC(a, b, c) ==
  IF a = <<>> /\ b = <<>>
  THEN (IF c = 0 THEN <<>> ELSE <<c>>)
  ELSE LET x == (IF a = <<>> THEN 0 ELSE Head(a))
                + (IF b = <<>> THEN 0 ELSE Head(b)) + c
       IN  <<x % LimbBase>>
             \o BAddC(IF a = <<>> THEN <<>> ELSE Tail(a),
                      IF b = <<>> THEN <<>> ELSE Tail(b),
                      x \div LimbBase)

BAdd(a, b) == BAddC(a, b, 0)

\* a - b - c for a >= b + c, limb by limb with borrow c
RECURSIVE BSubC(_, _, _)
BSubC(a, b, c) ==
  IF a = <<>> THEN <<>>
  ELSE LET x == Head(a) - (IF b = <<>> THEN 0 ELSE Head(b)) - c
       IN  <<IF x < 0 THEN x + LimbBase ELSE x>>
             \o BSubC(Tail(a), IF b = <<>> THEN <<>> ELSE Tail(b),
                      IF x < 0 THEN 1 ELSE 0)

BSub(a, b) == BNorm(BSubC(a, b, 0))

\* -1, 0, 1 as a < b, a = b, a > b
RECURSIVE BCmpFrom(_, _, _)
BCmpFrom(a, b, i) ==
  IF i = 0 THEN 0
  ELSE IF a[i] < b[i] THEN -1
  ELSE IF a[i] > b[i] THEN 1
  ELSE BCmpFrom(a, b, i - 1)

BCmp(a, b) ==
  IF Len(a) < Len(b) THEN -1
  ELSE IF Len(a) > Len(b) THEN 1
  ELSE BCmpFrom(a, b, Len(a))

RECURSIVE BMulSmallC(_, _, _)
BMulSmallC(a, k, c) ==
  IF a = <<>> THEN (IF c = 0 THEN <<>> ELSE <<c>>)
  ELSE LET x == Head(a) * k + c
       IN  <<x % LimbBase>> \o BMulSmallC(Tail(a), k, x \div LimbBase)

BMulSmall(a, k) == IF k = 0 THEN <<>> ELSE BMulSmallC(a, k, 0)

RECURSIVE BMul(_, _)
BMul(a, b) ==
  IF a = <<>> \/ b = <<>> THEN <<>>
  ELSE BAdd(BMulSmall(a, Head(b)),
            LET r == BMul(a, Tail(b)) IN IF r = <<>> THEN <<>> ELSE <<0>> \o r)

Zeros(n) == [i \in 1..n |-> 0]

\* a * 2^n
BShl(a, n) ==
  IF a = <<>> THEN <<>>
  ELSE Zeros(n \div LimbBits) \o BMulSmallC(a, 2 ^ (n % LimbBits), 0)

\* floor(a / k) for 0 < k <= LimbBase, from the most significant limb down
RECURSIVE BDivSmallFrom(_, _, _, _)
BDivSmallFrom(a, k, i, r) ==
  IF i = 0 THEN <<>>
  ELSE LET x == r * LimbBase + a[i]
       IN  IF x < k THEN BDivSmallFrom(a, k, i - 1, x) \o <<0>>
           ELSE BDivSmallFrom(a, k, i - 1, x % k) \o <<x \div k>>

\* floor(a / 2^n)
BShr(a, n) ==
  IF Len(a) <= n \div LimbBits THEN <<>>
  ELSE LET hi == SubSeq(a, (n \div LimbBits) + 1, Len(a))
       IN  BNorm(BDivSmallFrom(hi, 2 ^ (n % LimbBits), Len(hi), 0))

RECURSIVE NatBitLen(_)
NatBitLen(n) == IF n = 0 THEN 0 ELSE 1 + NatBitLen(n \div 2)

BBitLen(a) ==
  IF a = <<>> THEN 0 ELSE LimbBits * (Len(a) - 1) + NatBitLen(a[Len(a)])

BOdd(a) == a # <<>> /\ Head(a) % 2 = 1

Limb(a, i) == IF i <= Len(a) THEN a[i] ELSE 0

\* the quotient digit floor(cur / d) for cur < d * LimbBase: the estimate is
\* never too small, and is lowered until it fits
RECURSIVE BFixDigit(_, _, _)
BFixDigit(cur, d, q) ==
  IF BCmp(BMulSmall(d, q), cur) > 0 THEN BFixDigit(cur, d, q - 1) ELSE q

BDigit(cur, d) ==
  LET n   == Len(d)
      est == (Limb(cur, n + 1) * LimbBase + Limb(cur, n)) \div d[n]
  IN  BFixDigit(cur, d, IF est >= LimbBase THEN LimbBase - 1 ELSE est)

\* <<quotient limbs 1..i, remainder>> of schoolbook long division, the top
\* limb of d being at least LimbBase / 2
RECURSIVE BDivFrom(_, _, _, _)

\* the quotient digit q put above the digits and remainder of the rest
BDivCons(rest, q) == <<rest[1] \o <<q>>, rest[2]>>

\* limb i: the digit q of the running remainder cur, then the limbs below;
\* a digit 0 leaves the remainder as it is
BDivEmit(a, d, i, cur, q) ==
  IF q = 0 THEN BDivCons(BDivFrom(a, d, i - 1, cur), 0)
  ELSE BDivCons(BDivFrom(a, d, i - 1, BSub(cur, BMulSmall(d, q))), q)

BDivStep(a, d, i, cur) == BDivEmit(a, d, i, cur, BDigit(cur, d))

BDivFrom(a, d, i, rem) ==
  IF i = 0 THEN <<<<>>, rem>>
  ELSE BDivStep(a, d, i, BNorm(<<a[i]>> \o rem))

BDivAll(a2, d2) == BDivFrom(a2, d2, Len(a2), <<>>)

\* the quotient, and the remainder scaled back by 2^sh
BDivUnscale(r, sh) == <<BNorm(r[1]), BShr(r[2], sh)>>

\* a and d scaled by 2^sh so that the top limb of d is at least LimbBase / 2
BDivScaled(a, d, sh) == BDivUnscale(BDivAll(BShl(a, sh), BShl(d, sh)), sh)

\* <<floor(a / d), a mod d>> for d # 0
BDivMod(a, d) == BDivScaled(a, d, LimbBits - NatBitLen(d[Len(d)]))

(***************************************************************************)
(* binary64 values.                                                        *)
(***************************************************************************)
MantBits == 53

NaN == [k |-> "nan", s |-> 0, m |-> <<>>, e |-> 0]
Inf(s) == [k |-> "inf", s |-> s, m |-> <<>>, e |-> 0]
Zero(s) == [k |-> "fin", s |-> s, m |-> <<>>, e |-> 0]

IsNaN(x) == x.k = "nan"
IsInf(x) == x.k = "inf"
IsFinite(x) == x.k = "fin"
IsZero(x) == x.k = "fin" /\ x.m = <<>>

\* The binary64 nearest to (-1)^s * (M + f) * 2^e, where M # 0 and 0 <= f < 1
\* with f # 0 exactly when sticky: round to nearest, ties to even.
\* the rounded significand q1 may have grown to MantBits + 1 bits
RoundCarry(s, q1, e) ==
  IF BBitLen(q1) > MantBits
  THEN [k |-> "fin", s |-> s, m |-> BShr(q1, 1), e |-> e + 1]
  ELSE [k |-> "fin", s |-> s, m |-> q1, e |-> e]

\* c compares the bits dropped from q with one half of its last place
RoundTie(s, q, e, sticky, c) ==
  RoundCarry(s,
             IF c > 0 \/ (c = 0 /\ (sticky \/ BOdd(q))) THEN BAdd(q, <<1>>)
             ELSE q,
             e)

RoundQuotient(s, M, e, sticky, sh, q) ==
  RoundTie(s, q, e + sh, sticky,
           BCmp(BSub(M, BShl(q, sh)), BShl(<<1>>, sh - 1)))

\* M has n bits
RoundBits(s, M, e, sticky, n) ==
  IF n <= MantBits
  THEN [k |-> "fin", s |-> s, m |-> BShl(M, MantBits - n),
        e |-> e - (MantBits - n)]
  ELSE RoundQuotient(s, M, e, sticky, n - MantBits, BShr(M, n - MantBits))

RoundPack(s, M, e, sticky) == RoundBits(s, M, e, sticky, BBitLen(M))

\* An integer literal or integer-valued input as a number
Num(i) ==
  IF i = 0 THEN Zero(0)
  ELSE RoundPack(IF i < 0 THEN 1 ELSE 0, BFromNat(IF i < 0 THEN -i ELSE i),
                 0, FALSE)

FNeg(x) == [x EXCEPT !.s = IF IsNaN(x) THEN 0 ELSE 1 - x.s]

\* Math.abs
MathAbs(x) == [x EXCEPT !.s = 0]

\* magnitudes of two finite values: -1, 0, 1
MagCmp(x, y) ==
  IF x.m = <<>> THEN (IF y.m = <<>> THEN 0 ELSE -1)
  ELSE IF y.m = <<>> THEN 1
  ELSE IF x.e < y.e THEN -1
  ELSE IF x.e > y.e THEN 1
  ELSE BCmp(x.m, y.m)

\* the sum of two nonzero finite values whose significands Mx, My are
\* scaled to the common exponent e
FAddAligned(x, y, e, Mx, My, c) ==
  IF x.s = y.s THEN RoundPack(x.s, BAdd(Mx, My), e, FALSE)
  ELSE IF c = 0 THEN Zero(0)
  ELSE IF c > 0 THEN RoundPack(x.s, BSub(Mx, My), e, FALSE)
  ELSE RoundPack(y.s, BSub(My, Mx), e, FALSE)

FAddScaled(x, y, e, Mx, My) == FAddAligned(x, y, e, Mx, My, BCmp(Mx, My))

FAddAt(x, y, e) == FAddScaled(x, y, e, BShl(x.m, x.e - e), BShl(y.m, y.e - e))

\* x + y
FAdd(x, y) ==
  IF IsNaN(x) \/ IsNaN(y) THEN NaN
  ELSE IF IsInf(x) THEN (IF IsInf(y) /\ y.s # x.s THEN NaN ELSE x)
  ELSE IF IsInf(y) THEN y
  ELSE IF x.m = <<>> /\ y.m = <<>> THEN Zero(IF x.s = 1 /\ y.s = 1 THEN 1 ELSE 0)
  ELSE IF x.m = <<>> THEN y
  ELSE IF y.m = <<>> THEN x
  ELSE FAddAt(x, y, IF x.e < y.e THEN x.e ELSE y.e)

\* x - y
FSub(x, y) == FAdd(x, FNeg(y))

\* the sign of a product or quotient
SignOf(x, y) == IF x.s = y.s THEN 0 ELSE 1

\* x * y
FMul(x, y) ==
  IF IsNaN(x) \/ IsNaN(y) THEN NaN
  ELSE IF IsInf(x) \/ IsInf(y)
       THEN (IF IsZero(x) \/ IsZero(y) THEN NaN ELSE Inf(SignOf(x, y)))
  ELSE IF x.m = <<>> \/ y.m = <<>> THEN Zero(SignOf(x, y))
  ELSE RoundPack(SignOf(x, y), BMul(x.m, y.m), x.e + y.e, FALSE)

\* qr is <<quotient, remainder>> of the significands
FDivPack(s, qr, e) == RoundPack(s, qr[1], e, qr[2] # <<>>)

\* x / y
FDiv(x, y) ==
  IF IsNaN(x) \/ IsNaN(y) THEN NaN
  ELSE IF IsInf(x) THEN (IF IsInf(y) THEN NaN ELSE Inf(SignOf(x, y)))
  ELSE IF IsInf(y) THEN Zero(SignOf(x, y))
  ELSE IF y.m = <<>> THEN (IF x.m = <<>> THEN NaN ELSE Inf(SignOf(x, y)))
  ELSE IF x.m = <<>> THEN Zero(SignOf(x, y))
  ELSE FDivPack(SignOf(x, y), BDivMod(BShl(x.m, MantBits + 2), y.m),
                x.e - y.e - (MantBits + 2))

\* x < y
FLt(x, y) ==
  IF IsNaN(x) \/ IsNaN(y) THEN FALSE
  ELSE IF IsZero(x) /\ IsZero(y) THEN FALSE
  ELSE IF IsInf(x) THEN x.s = 1 /\ ~(IsInf(y) /\ y.s = 1)
  ELSE IF IsInf(y) THEN y.s = 0
  ELSE IF IsZero(x) THEN y.s = 0
  ELSE IF IsZero(y) THEN x.s = 1
  ELSE IF x.s # y.s THEN x.s = 1
  ELSE IF x.s = 0 THEN MagCmp(x, y) < 0
  ELSE MagCmp(x, y) > 0

\* x > y, x === y, x <= y, x >= y
FGt(x, y) == FLt(y, x)
FEq(x, y) == ~IsNaN(x) /\ ~IsNaN(y) /\ ~FLt(x, y) /\ ~FLt(y, x)
FLe(x, y) == FLt(x, y) \/ FEq(x, y)
FGe(x, y) == FLe(y, x)

\* Math.max(x, y)
MathMax(x, y) ==
  IF IsNaN(x) \/ IsNaN(y) THEN NaN
  ELSE IF FLt(x, y) THEN y
  ELSE IF FLt(y, x) THEN x
  ELSE IF x.s = 0 THEN x ELSE y

\* Math.round(x): the integer nearest to x, a tie going up
RoundedInteger(s, q) == IF q = <<>> THEN Zero(s) ELSE RoundPack(s, q, 0, FALSE)

\* x has sh fraction bits, half is one half in its last place:
\* floor(|x| + 1/2) for x > 0, ceil(|x| - 1/2) for x < 0
RoundHalfUp(x, sh, half) ==
  RoundedInteger(x.s,
    IF x.s = 0 THEN BShr(BAdd(x.m, half), sh)
    ELSE IF BCmp(x.m, half) <= 0 THEN <<>>
    ELSE BShr(BAdd(BSub(x.m, half), BSub(BShl(<<1>>, sh), <<1>>)), sh))

MathRound(x) ==
  IF ~IsFinite(x) \/ x.m = <<>> \/ x.e >= 0 THEN x
  ELSE RoundHalfUp(x, -x.e, BShl(<<1>>, -x.e - 1))

(***************************************************************************)
(* The engine: mockData.ts, sections 1 to 6.  Each operator takes and      *)
(* returns numbers as the function of the same name does.                  *)
(***************************************************************************)
\* americanToDecimal returning the net odds, the stake not added
americanToDecimal_NetOdds(americanOdds) ==
  IF FLt(americanOdds, Num(0))
  THEN FDiv(Num(100), MathAbs(americanOdds))
  ELSE FDiv(americanOdds, Num(100))

americanToDecimal(americanOdds) ==
  IF FLt(americanOdds, Num(0))
  THEN FAdd(FDiv(Num(100), MathAbs(americanOdds)), Num(1))
  ELSE FAdd(FDiv(americanOdds, Num(100)), Num(1))

\* americanToImpliedProbability with Math.abs left out of the denominator
americanToImpliedProbability_SignedDenominator(americanOdds) ==
  IF FLt(americanOdds, Num(0))
  THEN FDiv(MathAbs(americanOdds), FAdd(americanOdds, Num(100)))
  ELSE FDiv(Num(100), FAdd(americanOdds, Num(100)))

americanToImpliedProbability(americanOdds) ==
  IF FLt(americanOdds, Num(0))
  THEN FDiv(MathAbs(americanOdds), FAdd(MathAbs(americanOdds), Num(100)))
  ELSE FDiv(Num(100), FAdd(americanOdds, Num(100)))

\* decimalToAmerican with the boundary test > in place of >=
decimalToAmerican_StrictBoundary(decimalOdds) ==
  IF FGt(decimalOdds, Num(2))
  THEN MathRound(FMul(FSub(decimalOdds, Num(1)), Num(100)))
  ELSE MathRound(FDiv(Num(-100), FSub(decimalOdds, Num(1))))

decimalToAmerican(decimalOdds) ==
  IF FGe(decimalOdds, Num(2))
  THEN MathRound(FMul(FSub(decimalOdds, Num(1)), Num(100)))
  ELSE MathRound(FDiv(Num(-100), FSub(decimalOdds, Num(1))))

\* calculateEVPercentage with the payout taken as the decimal odds, the stake
\* not subtracted
calculateEVPercentage_StakeInPayout(yourProbability, americanOdds) ==
  LET decimalOdds == americanToDecimal(americanOdds)
  IN  FSub(FMul(yourProbability, decimalOdds), FSub(Num(1), yourProbability))

calculateEVPercentage(yourProbability, americanOdds) ==
  LET decimalOdds == americanToDecimal(americanOdds)
  IN  FSub(FMul(yourProbability, FSub(decimalOdds, Num(1))),
           FSub(Num(1), yourProbability))

calculateEVDollars(betAmount, evPercentage) == FMul(betAmount, evPercentage)

\* calculateKellyCriterion without the test of evPercentage and without
\* Math.max
calculateKellyCriterion_Unclamped(evPercentage, americanOdds) ==
  LET decimalOdds == americanToDecimal(americanOdds)
  IN  FDiv(evPercentage, FSub(decimalOdds, Num(1)))

calculateKellyCriterion(evPercentage, americanOdds) ==
  IF FLe(evPercentage, Num(0)) THEN Num(0)
  ELSE LET decimalOdds == americanToDecimal(americanOdds)
           kelly       == FDiv(evPercentage, FSub(decimalOdds, Num(1)))
       IN  MathMax(Num(0), kelly)

\* fractionMap with the half fraction 1 instead of 0.5
fractionMap_HalfIsFull(kellyFraction) ==
  CASE kellyFraction = "full"    -> Num(1)
    [] kellyFraction = "half"    -> Num(1)
    [] kellyFraction = "quarter" -> FDiv(Num(1), Num(4))

\* fractionMap: full 1, half 0.5, quarter 0.25
fractionMap(kellyFraction) ==
  CASE kellyFraction = "full"    -> Num(1)
    [] kellyFraction = "half"    -> FDiv(Num(1), Num(2))
    [] kellyFraction = "quarter" -> FDiv(Num(1), Num(4))

calculateBetSize(bankroll, kellyPercentage, kellyFraction) ==
  FMul(FMul(bankroll, kellyPercentage), fractionMap(kellyFraction))

\* the returned object of detectArbitrage
ArbitrageResult(probSum, hasArbitrage) ==
  [hasArbitrage  |-> hasArbitrage,
   arbPercentage |-> IF hasArbitrage
                     THEN FMul(FSub(FDiv(Num(1), probSum), Num(1)), Num(100))
                     ELSE Num(0)]

\* detectArbitrage with the test probSum <= 1 in place of probSum < 1
ArbitrageOfSum_AtMostOne(probSum) ==
  ArbitrageResult(probSum, FLe(probSum, Num(1)))

ArbitrageOfSum(probSum) == ArbitrageResult(probSum, FLt(probSum, Num(1)))

\* detectArbitrage summing the probability of the first side only
detectArbitrage_FirstSideOnly(oddsA, oddsB) ==
  LET probA == americanToImpliedProbability(oddsA)
  IN  ArbitrageOfSum(probA)

detectArbitrage(oddsA, oddsB) ==
  LET probA == americanToImpliedProbability(oddsA)
      probB == americanToImpliedProbability(oddsB)
  IN  ArbitrageOfSum(FAdd(probA, probB))

\* the default value of the parameter testOdds
DefaultTestOdds == <<-150, -140, -130, -120, -110, 110, 120, 130, 140, 150>>

\* the returned object with roi = profit / totalRisk whatever totalRisk is
ScenarioRow_UnguardedRoi(sideBOdds, hedgeBet, profit, totalRisk) ==
  [odds        |-> sideBOdds,
   requiredBet |-> FDiv(MathRound(FMul(hedgeBet, Num(100))), Num(100)),
   profit      |-> FDiv(MathRound(FMul(profit, Num(100))), Num(100)),
   roi         |-> FDiv(MathRound(FMul(FDiv(profit, totalRisk), Num(10000))),
                        Num(10000))]

\* the returned object of one element of the map over testOdds
ScenarioRow(sideBOdds, hedgeBet, profit, totalRisk) ==
  LET roi == IF FGt(totalRisk, Num(0)) THEN FDiv(profit, totalRisk) ELSE Num(0)
  IN  [odds        |-> sideBOdds,
       requiredBet |-> FDiv(MathRound(FMul(hedgeBet, Num(100))), Num(100)),
       profit      |-> FDiv(MathRound(FMul(profit, Num(100))), Num(100)),
       roi         |-> FDiv(MathRound(FMul(roi, Num(10000))), Num(10000))]

\* the profit taken as the payout of side A less the hedge, the stake on side
\* A not subtracted
ScenarioOfHedge_StakeKept(decimalOddsA, betAmount, sideBOdds, hedgeBet) ==
  ScenarioRow(sideBOdds, hedgeBet,
              FSub(FMul(betAmount, decimalOddsA), hedgeBet),
              FAdd(betAmount, hedgeBet))

ScenarioOfHedge(decimalOddsA, betAmount, sideBOdds, hedgeBet) ==
  ScenarioRow(sideBOdds, hedgeBet,
              FSub(FSub(FMul(betAmount, decimalOddsA), betAmount), hedgeBet),
              FAdd(betAmount, hedgeBet))

\* one element of the map, the hedge sized by decimalOddsB / decimalOddsA
ArbScenario_InvertedHedge(decimalOddsA, betAmount, sideBOdds) ==
  LET decimalOddsB == americanToDecimal(sideBOdds)
  IN  ScenarioOfHedge(decimalOddsA, betAmount, sideBOdds,
                      FDiv(FMul(betAmount, decimalOddsB), decimalOddsA))

\* one element of the map over testOdds
ArbScenario(decimalOddsA, betAmount, sideBOdds) ==
  LET decimalOddsB == americanToDecimal(sideBOdds)
  IN  ScenarioOfHedge(decimalOddsA, betAmount, sideBOdds,
                      FDiv(FMul(betAmount, decimalOddsA), decimalOddsB))

\* the map taking the candidates from the last to the first
ScenariosFrom_Reversed(decimalOddsA, betAmount, testOdds) ==
  [i \in 1..Len(testOdds) |->
     ArbScenario(decimalOddsA, betAmount, testOdds[Len(testOdds) + 1 - i])]

\* testOdds is a sequence of numbers
ScenariosFrom(decimalOddsA, betAmount, testOdds) ==
  [i \in 1..Len(testOdds) |-> ArbScenario(decimalOddsA, betAmount, testOdds[i])]

calculateArbProfitScenarios(sideAOdds, betAmount, testOdds) ==
  ScenariosFrom(americanToDecimal(sideAOdds), betAmount, testOdds)

\* the returned object of compareBets
Comparison(ev1, ev2) ==
  [recommended |-> IF FGt(ev1, ev2) THEN "option1" ELSE "option2",
   ev1         |-> ev1,
   ev2         |-> ev2,
   difference  |-> MathAbs(FSub(ev1, ev2))]

compareBets(yourProbability, option1Odds, option2Odds) ==
  Comparison(calculateEVPercentage(yourProbability, option1Odds),
             calculateEVPercentage(yourProbability, option2Odds))

\* the returned object of completeAnalysis
AnalysisResult(params, edgeVsSharps, edgeVsPM, recommendedSide, evPercentage, fullKellyPercent) ==
  [sharpsImpliedProb   |-> americanToImpliedProbability(params.sharpsOdds),
   pmImpliedProb       |-> americanToImpliedProbability(params.pmOdds),
   edgeVsSharps        |-> edgeVsSharps,
   edgeVsPM            |-> edgeVsPM,
   recommendedSide     |-> recommendedSide,
   evPercentage        |-> evPercentage,
   fullKellyPercent    |-> fullKellyPercent,
   halfKellyBetSize    |-> calculateBetSize(params.bankroll, fullKellyPercent,
                                            "half"),
   quarterKellyBetSize |-> calculateBetSize(params.bankroll, fullKellyPercent,
                                            "quarter"),
   arbInfo             |-> detectArbitrage(params.sharpsOdds, params.pmOdds)]

\* Kelly for the recommended side, at the odds of that side
AnalysisOfChoice(params, edgeVsSharps, edgeVsPM, recommendedSide, evPercentage, recommendedOdds) ==
  AnalysisResult(params, edgeVsSharps, edgeVsPM, recommendedSide, evPercentage,
                 calculateKellyCriterion(evPercentage, recommendedOdds))

AnalysisOfSide(params, edgeVsSharps, edgeVsPM, recommendedSide) ==
  AnalysisOfChoice(params, edgeVsSharps, edgeVsPM, recommendedSide,
                   IF recommendedSide = "sharps" THEN edgeVsSharps ELSE edgeVsPM,
                   IF recommendedSide = "sharps" THEN params.sharpsOdds
                   ELSE params.pmOdds)

\* completeAnalysis with the test edgeVsSharps >= edgeVsPM in place of >
AnalysisOfEdges_TieToFirst(params, edgeVsSharps, edgeVsPM) ==
  AnalysisOfSide(params, edgeVsSharps, edgeVsPM,
                 IF FGe(edgeVsSharps, edgeVsPM) THEN "sharps" ELSE "pm")

AnalysisOfEdges(params, edgeVsSharps, edgeVsPM) ==
  AnalysisOfSide(params, edgeVsSharps, edgeVsPM,
                 IF FGt(edgeVsSharps, edgeVsPM) THEN "sharps" ELSE "pm")

\* params: [sharpsOdds, pmOdds, yourProbabilityAgainstFav, bankroll]
completeAnalysis(params) ==
  AnalysisOfEdges(params,
    calculateEVPercentage(params.yourProbabilityAgainstFav, params.sharpsOdds),
    calculateEVPercentage(params.yourProbabilityAgainstFav, params.pmOdds))

(***************************************************************************)
(* validation.ts.  A value handed to a validator at run time is a pair of  *)
(* its type tag (typeof) and the number it converts to (isNaN and the      *)
(* comparison operators convert their operand to a number).                *)
(***************************************************************************)
JsValue(type, num) == [type |-> type, num |-> num]

typeof(v) == v.type

\* isNaN(v): is the number v converts to NaN
isNaN(v) == IsNaN(v.num)

ValidResult == [isValid |-> TRUE]

InvalidResult(error) == [isValid |-> FALSE, error |-> error]

validateBankroll(amount) ==
  IF typeof(amount) # "number" \/ isNaN(amount)
  THEN InvalidResult("Bankroll must be a valid number")
  ELSE IF FLt(amount.num, Num(0))
  THEN InvalidResult("Bankroll cannot be negative")
  ELSE IF FGt(amount.num, Num(1000000))
  THEN InvalidResult("Bankroll exceeds maximum allowed ($1,000,000)")
  ELSE ValidResult

\* validateOdds without the test odds === 0
validateOdds_ZeroAccepted(odds) ==
  IF typeof(odds) # "number" \/ isNaN(odds)
  THEN InvalidResult("Odds must be a valid number")
  ELSE IF ~(FLe(Num(-1000), odds.num) /\ FLe(odds.num, Num(10000)))
  THEN InvalidResult("Odds must be between -1000 and 10000")
  ELSE ValidResult

validateOdds(odds) ==
  IF typeof(odds) # "number" \/ isNaN(odds)
  THEN InvalidResult("Odds must be a valid number")
  ELSE IF ~(FLe(Num(-1000), odds.num) /\ FLe(odds.num, Num(10000)))
  THEN InvalidResult("Odds must be between -1000 and 10000")
  ELSE IF FEq(odds.num, Num(0))
  THEN InvalidResult("Odds cannot be zero")
  ELSE ValidResult

(***************************************************************************)
(* A caller of the engine.  The engine keeps no state: a state of the      *)
(* model is one call, the function called (fn), the arguments as the caller*)
(* wrote them (args: integers, and n/d for a decimal literal), the position*)
(* of the call (pc) and its result (ret).  After americanToDecimal has     *)
(* returned, the caller may hand the result to decimalToAmerican (back).   *)
(***************************************************************************)
VARIABLES fn, args, pc, ret, back

(***************************************************************************)
(* Several callers of the engine at once: calls[c] is the call caller c    *)
(* is making, with its arguments, its position and its result.             *)
(***************************************************************************)
VARIABLES calls

\* no caller besides the single one
NoCallers == calls = <<>>

(***************************************************************************)
(* The session the components share: the value of the AuthContext          *)
(* (currentUser, loading), the signed-in user of Firebase Auth (session),  *)
(* and the documents of the Firestore collection users.                    *)
(***************************************************************************)
VARIABLES currentUser, loading, session, users

\* null, as a value that compares with every record
Null == [null |-> TRUE]

IsNull(v) == "null" \in DOMAIN v

(***************************************************************************)
(* One GameCard: its React state, the timers of its debounce effect that   *)
(* are pending in the browser (timers), the timer the cleanup of the last  *)
(* run of the effect clears (effectTimer, 0 when that run set none), and   *)
(* the bag of the POST /calculate requests in flight, any of which may     *)
(* complete next (requests).  Of the Header: the updateDoc writes of       *)
(* handleBankrollSave whose promise is pending, in the order of their      *)
(* issue (writes).                                                         *)
(***************************************************************************)
VARIABLES isExpanded, analysis, isLoading, editableSharpML, editableBestOfferOdds, arbFoundOdds, arbBetAmount, timers, effectTimer, requests, writes

cardVars == <<isExpanded, analysis, isLoading, editableSharpML, editableBestOfferOdds, arbFoundOdds, arbBetAmount, timers, effectTimer, requests, writes>>

\* no GameCard is mounted
NoCard ==
  /\ isExpanded = FALSE
  /\ analysis = Null
  /\ isLoading = FALSE
  /\ editableSharpML = 0
  /\ editableBestOfferOdds = 0
  /\ arbFoundOdds = 0
  /\ arbBetAmount = 0
  /\ timers = {}
  /\ effectTimer = 0
  /\ requests = EmptyBag
  /\ writes = <<>>

(***************************************************************************)
(* The Login page and the listener of AuthProvider: the notifications of   *)
(* onAuthStateChanged not yet delivered (authEvents), the users whose      *)
(* document the listener is loading (loads), whether the effect of         *)
(* AuthProvider has run (listening), the handler of the Login page that is *)
(* running or has run last (handler) and the route shown (route).  Of      *)
(* AuthProvider also its state firebaseUser, and of Firebase Auth the      *)
(* accounts that exist (registered).                                       *)
(***************************************************************************)
VARIABLES isFirebaseConfigured, listening, authEvents, loads, handler, route, firebaseUser, registered

loginVars == <<isFirebaseConfigured, listening, authEvents, loads, handler, route, firebaseUser, registered>>

\* no application is mounted
NoLogin ==
  /\ isFirebaseConfigured = FALSE
  /\ listening = FALSE
  /\ authEvents = <<>>
  /\ loads = {}
  /\ handler = Null
  /\ route = "/"
  /\ firebaseUser = Null
  /\ registered = {}

NoSession ==
  /\ currentUser = Null
  /\ loading = TRUE
  /\ session = "none"
  /\ users = <<>>

(***************************************************************************)
(* The AdminPanel: its states pendingUsers and loading (panelLoading),     *)
(* whether the getDocs of loadPendingUsers is awaited (listing), and the   *)
(* updateDoc writes of handleApprove whose promise is pending, in the      *)
(* order of their issue (approvals).                                       *)
(***************************************************************************)
VARIABLES pendingUsers, panelLoading, listing, approvals

adminVars == <<pendingUsers, panelLoading, listing, approvals>>

\* no AdminPanel is mounted
NoAdmin ==
  /\ pendingUsers = <<>>
  /\ panelLoading = TRUE
  /\ listing = FALSE
  /\ approvals = <<>>

(***************************************************************************)
(* The Dashboard and its LeagueTabs: the state selectedLeague of each, and *)
(* the tabs clicked so far (clicks).                                       *)
(***************************************************************************)
VARIABLES selectedLeague, tabsSelectedLeague, clicks

dashboardVars == <<selectedLeague, tabsSelectedLeague, clicks>>

\* no Dashboard is mounted
NoDashboard ==
  /\ selectedLeague = "all"
  /\ tabsSelectedLeague = "all"
  /\ clicks = <<>>

(***************************************************************************)
(* The GameCard without a backend analysis: the values its last render     *)
(* computed locally from the two odds inputs (view), Null before it.       *)
(***************************************************************************)
VARIABLES view

\* no GameCard has rendered its local values
NoRender == view = Null

pageVars == <<adminVars, dashboardVars, view>>

NoPages == NoAdmin /\ NoDashboard /\ NoRender

\* what lies outside the single call of the engine, and its state when the
\* single call is all there is
outside == <<calls, currentUser, loading, session, users, cardVars, loginVars, pageVars>>

OutsideIdle == NoCallers /\ NoSession /\ NoCard /\ NoLogin /\ NoPages

vars == <<fn, args, pc, ret, back, outside>>

None == "none"

\* the number a decimal literal n/d denotes: the binary64 nearest to n/d
Ratio(r) == FDiv(Num(r[1]), Num(r[2]))

\* ---- bounded input domains ----
NearSpan == 200

NearEven == {100 + i : i \in 0..NearSpan}

Magnitudes == {1, 50, 99} \cup NearEven \cup {110, 120, 150, 200, 400, 1000, 9999, 10000}

NonzeroOdds == Magnitudes \cup {-o : o \in Magnitudes}

AllOdds == NonzeroOdds \cup {0}

\* odds for the operations that take two prices
PairOdds == {-200, -150, -110, -101, -100, 100, 101, 110, 150, 200, 0}

DecimalRatios == {<<1, 1>>, <<101, 100>>, <<3, 2>>, <<21, 11>>, <<2, 1>>, <<5, 2>>, <<101, 1>>}

ProbRatios == {<<1, 100>>, <<1, 4>>, <<2, 5>>, <<1, 2>>, <<11, 21>>, <<55, 100>>, <<3, 4>>, <<99, 100>>}

\* the literal of the probability that odds o imply
ImpliedRatio(o) == IF o < 0 THEN <<-o, -o + 100>> ELSE <<100, o + 100>>

EvRatios == {<<-1, 2>>, <<-1, 100>>, <<0, 1>>, <<1, 100>>, <<5, 100>>, <<1, 2>>, <<3, 1>>}

KellyRatios == {<<0, 1>>, <<55, 1000>>, <<1, 2>>}

Bankrolls == {0, 1, 1000, 1000000}

BetAmounts == {0, 1, 100, 1000}

\* testOdds as passed; <<>> with given = FALSE is the omitted parameter
TestOddsLists == {<<>>, <<100>>, <<-110, 10000>>, <<150, -150, 0>>}

\* values handed to the validators, as written: a number literal n/d, or a
\* special number, or a value that is not a number (a string, undefined)
Written(type, kind, lit) == [type |-> type, kind |-> kind, lit |-> lit]

Special == {Written("number", "nan", <<0, 1>>), Written("number", "inf", <<1, 1>>),
            Written("number", "inf", <<-1, 1>>), Written("number", "negzero", <<0, 1>>),
            Written("string", "nan", <<0, 1>>), Written("string", "fin", <<5, 1>>),
            Written("string", "fin", <<0, 1>>), Written("undefined", "nan", <<0, 1>>)}

OddsLiterals == {<<-1001, 1>>, <<-10001, 10>>, <<-1000, 1>>, <<-999, 1>>, <<-110, 1>>,
                 <<-1, 1>>, <<-1, 2>>, <<0, 1>>, <<1, 1000>>, <<1, 2>>, <<1, 1>>,
                 <<100, 1>>, <<9999, 1>>, <<10000, 1>>, <<100001, 10>>, <<10001, 1>>}

BankrollLiterals == {<<-1000, 1>>, <<-1, 1>>, <<-1, 100>>, <<0, 1>>, <<1, 100>>, <<1, 1>>,
                     <<1000, 1>>, <<999999, 1>>, <<1000000, 1>>, <<100000001, 100>>,
                     <<1000001, 1>>, <<2000000, 1>>}

OddsValues == Special \cup {Written("number", "fin", l) : l \in OddsLiterals}

BankrollValues == Special \cup {Written("number", "fin", l) : l \in BankrollLiterals}

\* the number a written value converts to
NumberOf(w) ==
  CASE w.kind = "nan" -> NaN
    [] w.kind = "inf" -> Inf(IF w.lit[1] < 0 THEN 1 ELSE 0)
    [] w.kind = "negzero" -> Zero(1)
    [] OTHER -> Ratio(w.lit)

ValueOf(w) == JsValue(w.type, NumberOf(w))

Init ==
  /\ OutsideIdle
  /\ pc = "call"
  /\ ret = None
  /\ back = None
  /\ \/ /\ fn = "americanToDecimal"
        /\ \E o \in AllOdds : args = [americanOdds |-> o]
     \/ /\ fn = "americanToImpliedProbability"
        /\ \E o \in AllOdds : args = [americanOdds |-> o]
     \/ /\ fn = "decimalToAmerican"
        /\ \E d \in DecimalRatios : args = [decimalOdds |-> d]
     \/ /\ fn = "calculateEVPercentage"
        /\ \E o \in AllOdds : \E p \in ProbRatios \cup {ImpliedRatio(o)} :
             args = [yourProbability |-> p, americanOdds |-> o]
     \/ /\ fn = "calculateEVDollars"
        /\ \E b \in BetAmounts : \E e \in EvRatios :
             args = [betAmount |-> b, evPercentage |-> e]
     \/ /\ fn = "calculateKellyCriterion"
        /\ \E o \in AllOdds : \E e \in EvRatios :
             args = [evPercentage |-> e, americanOdds |-> o]
     \/ /\ fn = "calculateBetSize"
        /\ \E b \in Bankrolls : \E k \in KellyRatios :
           \E f \in {"full", "half", "quarter"} :
             args = [bankroll |-> b, kellyPercentage |-> k, kellyFraction |-> f]
     \/ /\ fn = "detectArbitrage"
        /\ \E a \in PairOdds : \E b \in PairOdds :
             args = [oddsA |-> a, oddsB |-> b]
     \/ /\ fn = "calculateArbProfitScenarios"
        /\ \E a \in PairOdds : \E b \in BetAmounts :
           \/ args = [sideAOdds |-> a, betAmount |-> b, given |-> FALSE,
                      testOdds |-> <<>>]
           \/ \E t \in TestOddsLists :
                args = [sideAOdds |-> a, betAmount |-> b, given |-> TRUE,
                        testOdds |-> t]
     \/ /\ fn = "compareBets"
        /\ \E a \in PairOdds : \E b \in PairOdds : \E p \in {<<2, 5>>, <<55, 100>>} :
             args = [yourProbability |-> p, option1Odds |-> a, option2Odds |-> b]
     \/ /\ fn = "completeAnalysis"
        /\ \E a \in PairOdds : \E b \in PairOdds :
           \E p \in {<<1, 100>>, <<2, 5>>, <<55, 100>>, <<3, 4>>, <<99, 100>>} :
           \E r \in {0, 1, 1000} :
             args = [sharpsOdds |-> a, pmOdds |-> b,
                     yourProbabilityAgainstFav |-> p, bankroll |-> r]
     \/ /\ fn = "validateBankroll"
        /\ \E w \in BankrollValues : args = [amount |-> w]
     \/ /\ fn = "validateOdds"
        /\ \E w \in OddsValues : args = [odds |-> w]

\* Each call returns: no function of the module has a throw statement.
CallAmericanToDecimal ==
  /\ pc = "call"
  /\ fn = "americanToDecimal"
  /\ ret' = americanToDecimal(Num(args.americanOdds))
  /\ pc' = "returned"
  /\ UNCHANGED <<fn, args, back, outside>>

CallAmericanToImpliedProbability ==
  /\ pc = "call"
  /\ fn = "americanToImpliedProbability"
  /\ ret' = americanToImpliedProbability(Num(args.americanOdds))
  /\ pc' = "returned"
  /\ UNCHANGED <<fn, args, back, outside>>

CallDecimalToAmerican ==
  /\ pc = "call"
  /\ fn = "decimalToAmerican"
  /\ ret' = decimalToAmerican(Ratio(args.decimalOdds))
  /\ pc' = "returned"
  /\ UNCHANGED <<fn, args, back, outside>>

\* decimalToAmerican(americanToDecimal(o)): the caller converts back
ConvertBack ==
  /\ pc = "returned"
  /\ fn = "americanToDecimal"
  /\ back' = decimalToAmerican(ret)
  /\ pc' = "converted"
  /\ UNCHANGED <<fn, args, ret, outside>>

CallCalculateEVPercentage ==
  /\ pc = "call"
  /\ fn = "calculateEVPercentage"
  /\ ret' = calculateEVPercentage(Ratio(args.yourProbability),
              Num(args.americanOdds))
  /\ pc' = "returned"
  /\ UNCHANGED <<fn, args, back, outside>>

CallCalculateEVDollars ==
  /\ pc = "call"
  /\ fn = "calculateEVDollars"
  /\ ret' = calculateEVDollars(Num(args.betAmount), Ratio(args.evPercentage))
  /\ pc' = "returned"
  /\ UNCHANGED <<fn, args, back, outside>>

CallCalculateKellyCriterion ==
  /\ pc = "call"
  /\ fn = "calculateKellyCriterion"
  /\ ret' = calculateKellyCriterion(Ratio(args.evPercentage),
              Num(args.americanOdds))
  /\ pc' = "returned"
  /\ UNCHANGED <<fn, args, back, outside>>

CallCalculateBetSize ==
  /\ pc = "call"
  /\ fn = "calculateBetSize"
  /\ ret' = calculateBetSize(Num(args.bankroll), Ratio(args.kellyPercentage),
              args.kellyFraction)
  /\ pc' = "returned"
  /\ UNCHANGED <<fn, args, back, outside>>

CallDetectArbitrage ==
  /\ pc = "call"
  /\ fn = "detectArbitrage"
  /\ ret' = detectArbitrage(Num(args.oddsA), Num(args.oddsB))
  /\ pc' = "returned"
  /\ UNCHANGED <<fn, args, back, outside>>

\* the list the function maps over: the argument, or the default when omitted
TestOddsOf(a) == IF a.given THEN a.testOdds ELSE DefaultTestOdds

CallCalculateArbProfitScenarios ==
  /\ pc = "call"
  /\ fn = "calculateArbProfitScenarios"
  /\ ret' = calculateArbProfitScenarios(
              Num(args.sideAOdds), Num(args.betAmount),
              [i \in 1..Len(TestOddsOf(args)) |-> Num(TestOddsOf(args)[i])])
  /\ pc' = "returned"
  /\ UNCHANGED <<fn, args, back, outside>>

\* the caller calls calculateArbProfitScenarios a second time with the
\* arguments of the first call
CallCalculateArbProfitScenariosAgain ==
  /\ pc = "returned"
  /\ fn = "calculateArbProfitScenarios"
  /\ back' = calculateArbProfitScenarios(
               Num(args.sideAOdds), Num(args.betAmount),
               [i \in 1..Len(TestOddsOf(args)) |-> Num(TestOddsOf(args)[i])])
  /\ pc' = "repeated"
  /\ UNCHANGED <<fn, args, ret, outside>>

CallCompareBets ==
  /\ pc = "call"
  /\ fn = "compareBets"
  /\ ret' = compareBets(Ratio(args.yourProbability), Num(args.option1Odds),
              Num(args.option2Odds))
  /\ pc' = "returned"
  /\ UNCHANGED <<fn, args, back, outside>>

CallCompleteAnalysis ==
  /\ pc = "call"
  /\ fn = "completeAnalysis"
  /\ ret' = completeAnalysis([sharpsOdds |-> Num(args.sharpsOdds),
              pmOdds |-> Num(args.pmOdds),
              yourProbabilityAgainstFav |->
              Ratio(args.yourProbabilityAgainstFav),
              bankroll |-> Num(args.bankroll)])
  /\ pc' = "returned"
  /\ UNCHANGED <<fn, args, back, outside>>

CallValidateBankroll ==
  /\ pc = "call"
  /\ fn = "validateBankroll"
  /\ ret' = validateBankroll(ValueOf(args.amount))
  /\ pc' = "returned"
  /\ UNCHANGED <<fn, args, back, outside>>

CallValidateOdds ==
  /\ pc = "call"
  /\ fn = "validateOdds"
  /\ ret' = validateOdds(ValueOf(args.odds))
  /\ pc' = "returned"
  /\ UNCHANGED <<fn, args, back, outside>>

Next ==
  \/ CallAmericanToDecimal
  \/ CallAmericanToImpliedProbability
  \/ CallDecimalToAmerican
  \/ ConvertBack
  \/ CallCalculateEVPercentage
  \/ CallCalculateEVDollars
  \/ CallCalculateKellyCriterion
  \/ CallCalculateBetSize
  \/ CallDetectArbitrage
  \/ CallCalculateArbProfitScenarios
  \/ CallCalculateArbProfitScenariosAgain
  \/ CallCompareBets
  \/ CallCompleteAnalysis
  \/ CallValidateBankroll
  \/ CallValidateOdds

Spec == Init /\ [][Next]_vars
(***************************************************************************)
(* Callers.  Each caller prepares a call (a function of the engine and the *)
(* arguments), the engine runs it to completion, and the caller may then   *)
(* prepare its next call.  The functions are synchronous, so the calls of  *)
(* different callers interleave call by call.                              *)
(***************************************************************************)
Callers == {"a", "b"}

MaxCalls == 2

Invocation(f, a) == [fn |-> f, args |-> a]

\* one call of every function of the engine, and two calls of the functions
\* that take a bankroll or a params object
Invocations ==
  {Invocation("americanToDecimal", [americanOdds |-> -110]),
   Invocation("americanToImpliedProbability", [americanOdds |-> 150]),
   Invocation("decimalToAmerican", [decimalOdds |-> <<3, 2>>]),
   Invocation("calculateEVPercentage",
              [yourProbability |-> <<55, 100>>, americanOdds |-> -110]),
   Invocation("calculateEVDollars",
              [betAmount |-> 100, evPercentage |-> <<5, 100>>]),
   Invocation("calculateKellyCriterion",
              [evPercentage |-> <<5, 100>>, americanOdds |-> -110]),
   Invocation("calculateBetSize",
              [bankroll |-> 1000, kellyPercentage |-> <<55, 1000>>,
               kellyFraction |-> "half"]),
   Invocation("calculateBetSize",
              [bankroll |-> 1000000, kellyPercentage |-> <<55, 1000>>,
               kellyFraction |-> "quarter"]),
   Invocation("detectArbitrage", [oddsA |-> 150, oddsB |-> 150]),
   Invocation("calculateArbProfitScenarios",
              [sideAOdds |-> -110, betAmount |-> 1000, given |-> TRUE,
               testOdds |-> <<100, -120>>]),
   Invocation("compareBets",
              [yourProbability |-> <<55, 100>>, option1Odds |-> -110,
               option2Odds |-> 110]),
   Invocation("completeAnalysis",
              [sharpsOdds |-> -110, pmOdds |-> 110,
               yourProbabilityAgainstFav |-> <<55, 100>>, bankroll |-> 1000]),
   Invocation("completeAnalysis",
              [sharpsOdds |-> 150, pmOdds |-> -150,
               yourProbabilityAgainstFav |-> <<2, 5>>, bankroll |-> 0])}

\* the result of the function f of the engine on the arguments a
ResultOf(f, a) ==
  CASE f = "americanToDecimal" -> americanToDecimal(Num(a.americanOdds))
    [] f = "americanToImpliedProbability" ->
         americanToImpliedProbability(Num(a.americanOdds))
    [] f = "decimalToAmerican" -> decimalToAmerican(Ratio(a.decimalOdds))
    [] f = "calculateEVPercentage" ->
         calculateEVPercentage(Ratio(a.yourProbability), Num(a.americanOdds))
    [] f = "calculateEVDollars" ->
         calculateEVDollars(Num(a.betAmount), Ratio(a.evPercentage))
    [] f = "calculateKellyCriterion" ->
         calculateKellyCriterion(Ratio(a.evPercentage), Num(a.americanOdds))
    [] f = "calculateBetSize" ->
         calculateBetSize(Num(a.bankroll), Ratio(a.kellyPercentage),
                          a.kellyFraction)
    [] f = "detectArbitrage" -> detectArbitrage(Num(a.oddsA), Num(a.oddsB))
    [] f = "calculateArbProfitScenarios" ->
         calculateArbProfitScenarios(Num(a.sideAOdds), Num(a.betAmount),
           [i \in 1..Len(TestOddsOf(a)) |-> Num(TestOddsOf(a)[i])])
    [] f = "compareBets" ->
         compareBets(Ratio(a.yourProbability), Num(a.option1Odds),
                     Num(a.option2Odds))
    [] f = "completeAnalysis" ->
         completeAnalysis([sharpsOdds |-> Num(a.sharpsOdds),
           pmOdds |-> Num(a.pmOdds),
           yourProbabilityAgainstFav |-> Ratio(a.yourProbabilityAgainstFav),
           bankroll |-> Num(a.bankroll)])

\* the single call is over; nothing of it is left in the engine
NoSingleCall ==
  /\ fn = None
  /\ args = None
  /\ pc = "idle"
  /\ ret = None
  /\ back = None

CallersInit ==
  /\ NoSingleCall
  /\ NoPages
  /\ NoSession
  /\ NoCard
  /\ NoLogin
  /\ calls = [c \in Callers |->
                [fn |-> None, args |-> None, pc |-> "idle", ret |-> None,
                 made |-> 0]]

\* caller c writes down its next call
CallerPrepares(c) ==
  /\ calls[c].pc \in {"idle", "returned"}
  /\ calls[c].made < MaxCalls
  /\ \E v \in Invocations :
       calls' = [calls EXCEPT ![c] = [fn |-> v.fn, args |-> v.args,
                                      pc |-> "call", ret |-> None,
                                      made |-> calls[c].made]]
  /\ UNCHANGED <<fn, args, pc, ret, back, currentUser, loading, session, users,
               cardVars, loginVars, pageVars>>

\* the engine runs the call of caller c to completion, every result stored
\* in one place that all callers read
CallerCalls_SharedResult(c) ==
  /\ calls[c].pc = "call"
  /\ calls' = [d \in Callers |->
                 IF d = c
                 THEN [calls[c] EXCEPT !.ret = ResultOf(calls[c].fn, calls[c].args),
                                       !.pc = "returned",
                                       !.made = calls[c].made + 1]
                 ELSE IF calls[d].pc = "returned"
                 THEN [calls[d] EXCEPT !.ret = ResultOf(calls[c].fn, calls[c].args)]
                 ELSE calls[d]]
  /\ UNCHANGED <<fn, args, pc, ret, back, currentUser, loading, session, users,
               cardVars, loginVars, pageVars>>

\* the engine runs the call of caller c to completion: it reads the
\* arguments and writes the result, and nothing else
CallerCalls(c) ==
  /\ calls[c].pc = "call"
  /\ calls' = [calls EXCEPT ![c].ret = ResultOf(calls[c].fn, calls[c].args),
                            ![c].pc = "returned",
                            ![c].made = calls[c].made + 1]
  /\ UNCHANGED <<fn, args, pc, ret, back, currentUser, loading, session, users,
               cardVars, loginVars, pageVars>>

CallersNext == \E c \in Callers : CallerPrepares(c) \/ CallerCalls(c)

CallersSpec == CallersInit /\ [][CallersNext]_vars
(***************************************************************************)
(* GameCard and Header.  A step is one event of the browser: the handler   *)
(* runs, React renders the card again and runs the debounce effect when a  *)
(* dependency (editableSharpML, editableBestOfferOdds, isExpanded) has      *)
(* changed: first the cleanup of its last run, then its body.  The states  *)
(* selectedKelly, isArbExpanded and error take no part in what is sent,    *)
(* scheduled or stored and are left out.  The backend answers a request    *)
(* with the analysis of the odds and bankroll of its body.                 *)
(***************************************************************************)
\* the lines of the card's game (the first of mockGames, bestEVSide 'fav')
bestSharpOdds == -110

bestPMOdds == -108

\* the number a text of digits denotes
Literal(text) ==
  CASE text = "-110" -> -110
    [] text = "-108" -> -108
    [] text = "20000" -> 20000
    [] text = "-50" -> -50
    [] text = "100" -> 100
    [] text = "-5" -> -5
    [] text = "1000" -> 1000
    [] text = "2000000" -> 2000000

\* Number(e.target.value): the empty text of a cleared input is 0
Number(text) == IF text = "" THEN Num(0) ELSE Num(Literal(text))

\* parseFloat(bankrollInput): the empty text is NaN
parseFloat(text) == IF text = "" THEN NaN ELSE Num(Literal(text))

\* what the user can leave in the inputs
SharpTexts == {"", "-110"}

OfferTexts == {"20000", "-108"}

ArbOddsTexts == {"", "-110"}

ArbBetTexts == {"-50", "100"}

BankrollTexts == {"", "-5", "1000", "2000000"}

\* the requests and writes in flight at a time
MaxInFlight == 2

\* currentUser?.bankroll || 0
BankrollOrZero(user) ==
  IF IsNull(user) THEN Num(0)
  ELSE IF IsNaN(user.bankroll) \/ IsZero(user.bankroll) THEN Num(0)
  ELSE user.bankroll

\* the body fetchAnalysis posts to /calculate
RequestBody(sharpOdds, pmOdds, user) ==
  [sharp_odds |-> sharpOdds, pm_odds |-> pmOdds, bankroll |-> BankrollOrZero(user)]

\* the response of the backend to a request with this body
GameAnalysis(body) == [request |-> body]

\* the bodies of the requests in flight
InFlight == BagToSet(requests)

\* the local calculations of a render
sharpProb == americanToImpliedProbability(editableSharpML)

sharpDecimal == americanToDecimal(editableSharpML)

pmDecimal == americanToDecimal(editableBestOfferOdds)

arbScenarios ==
  calculateArbProfitScenarios(arbFoundOdds, arbBetAmount,
    [i \in 1..Len(DefaultTestOdds) |-> Num(DefaultTestOdds[i])])

\* the cleanup of the last run of the effect, clearing no timer
Cleared_Nothing(pending, lastTimer) == pending

\* the cleanup of the last run of the effect: clearTimeout(timer)
Cleared(pending, lastTimer) == {t \in pending : t.id # lastTimer}

\* the id setTimeout returns: one that no pending timer has
FreshId(pending) ==
  CHOOSE i \in 1..(Cardinality(pending) + 1) : \A t \in pending : t.id # i

\* setTimeout(() => fetchAnalysis(editableSharpML, editableBestOfferOdds), 200)
\* in a render with these values
Scheduled(pending, sharpOdds, pmOdds, user) ==
  pending \cup {[id |-> FreshId(pending),
                 body |-> RequestBody(sharpOdds, pmOdds, user)]}

\* the pending timers after a run of the effect (cleanup, then body)
EffectTimers(expanded, sharpOdds, pmOdds) ==
  IF expanded /\ ~IsNull(analysis)
  THEN Scheduled(Cleared(timers, effectTimer), sharpOdds, pmOdds, currentUser)
  ELSE Cleared(timers, effectTimer)

\* the timer the next cleanup clears
EffectTimerId(expanded) ==
  IF expanded /\ ~IsNull(analysis)
  THEN FreshId(Cleared(timers, effectTimer))
  ELSE 0

\* what no event of the card or the header changes
cardFrame == <<fn, args, pc, ret, back, calls, loading, session, loginVars, pageVars>>

CardInit ==
  /\ NoSingleCall
  /\ NoPages
  /\ NoCallers
  /\ NoLogin
  /\ loading = FALSE
  /\ session = "u1"
  /\ currentUser = [uid |-> "u1", bankroll |-> Num(1000), approved |-> TRUE]
  /\ users = [u \in {"u1"} |-> [bankroll |-> Num(1000), approved |-> TRUE]]
  /\ isExpanded = FALSE
  /\ analysis = Null
  /\ isLoading = FALSE
  /\ editableSharpML = Num(bestSharpOdds)
  /\ editableBestOfferOdds = Num(bestPMOdds)
  /\ arbFoundOdds = Num(-110)
  /\ arbBetAmount = Num(100)
  /\ timers = {}
  /\ effectTimer = 0
  /\ requests = EmptyBag
  /\ writes = <<>>

handleExpandModal ==
  /\ ~isExpanded
  /\ BagCardinality(requests) + Len(writes) < MaxInFlight
  /\ isExpanded' = TRUE
  /\ editableSharpML' = Num(bestSharpOdds)
  /\ editableBestOfferOdds' = Num(bestPMOdds)
  /\ isLoading' = TRUE
  /\ requests' = requests (+)
       SetToBag({RequestBody(Num(bestSharpOdds), Num(bestPMOdds), currentUser)})
  /\ timers' = EffectTimers(TRUE, Num(bestSharpOdds), Num(bestPMOdds))
  /\ effectTimer' = EffectTimerId(TRUE)
  /\ UNCHANGED <<analysis, arbFoundOdds, arbBetAmount, writes, currentUser,
                 users, cardFrame>>

handleCloseModal ==
  /\ isExpanded
  /\ isExpanded' = FALSE
  /\ timers' = EffectTimers(FALSE, editableSharpML, editableBestOfferOdds)
  /\ effectTimer' = EffectTimerId(FALSE)
  /\ UNCHANGED <<isLoading, writes,
                 analysis, editableSharpML, editableBestOfferOdds, arbFoundOdds,
                 arbBetAmount, requests, currentUser, users, cardFrame>>

\* onChange of the sharp line input
setEditableSharpML(text) ==
  /\ isExpanded
  /\ editableSharpML' = Number(text)
  /\ IF Number(text) = editableSharpML
     THEN UNCHANGED <<timers, effectTimer>>
     ELSE /\ timers' = EffectTimers(isExpanded, Number(text), editableBestOfferOdds)
          /\ effectTimer' = EffectTimerId(isExpanded)
  /\ UNCHANGED <<isLoading, writes,
                 isExpanded, analysis, editableBestOfferOdds, arbFoundOdds,
                 arbBetAmount, requests, currentUser, users, cardFrame>>

\* onChange of the best offer input
setEditableBestOfferOdds(text) ==
  /\ isExpanded
  /\ editableBestOfferOdds' = Number(text)
  /\ IF Number(text) = editableBestOfferOdds
     THEN UNCHANGED <<timers, effectTimer>>
     ELSE /\ timers' = EffectTimers(isExpanded, editableSharpML, Number(text))
          /\ effectTimer' = EffectTimerId(isExpanded)
  /\ UNCHANGED <<isLoading, writes,
                 isExpanded, analysis, editableSharpML, arbFoundOdds,
                 arbBetAmount, requests, currentUser, users, cardFrame>>

\* onChange of the odds input of the arbitrage calculator
setArbFoundOdds(text) ==
  /\ isExpanded
  /\ arbFoundOdds' = Number(text)
  /\ UNCHANGED <<isLoading, writes,
                 isExpanded, analysis, editableSharpML, editableBestOfferOdds,
                 arbBetAmount, timers, effectTimer, requests, currentUser,
                 users, cardFrame>>

\* onChange of the amount input of the arbitrage calculator
setArbBetAmount(text) ==
  /\ isExpanded
  /\ arbBetAmount' = MathMax(Num(0), Number(text))
  /\ UNCHANGED <<isLoading, writes,
                 isExpanded, analysis, editableSharpML, editableBestOfferOdds,
                 arbFoundOdds, timers, effectTimer, requests, currentUser,
                 users, cardFrame>>

\* a pending timer fires: its callback calls fetchAnalysis
TimerFires ==
  /\ BagCardinality(requests) + Len(writes) < MaxInFlight
  /\ \E t \in timers :
       /\ timers' = timers \ {t}
       /\ requests' = requests (+) SetToBag({t.body})
  /\ isLoading' = TRUE
  /\ UNCHANGED <<writes,
                 isExpanded, analysis, editableSharpML, editableBestOfferOdds,
                 arbFoundOdds, arbBetAmount, effectTimer, currentUser, users,
                 cardFrame>>

\* the response of a request arrives with response.ok
FetchSucceeds ==
  /\ \E r \in InFlight :
       /\ requests' = requests (-) SetToBag({r})
       /\ analysis' = GameAnalysis(r)
  /\ isLoading' = FALSE
  /\ UNCHANGED <<writes, isExpanded, editableSharpML, editableBestOfferOdds,
                 arbFoundOdds, arbBetAmount, timers, effectTimer, currentUser,
                 users, cardFrame>>

\* a request fails, or its response is not ok
FetchFails ==
  /\ \E r \in InFlight : requests' = requests (-) SetToBag({r})
  /\ isLoading' = FALSE
  /\ UNCHANGED <<writes,
                 isExpanded, analysis, editableSharpML, editableBestOfferOdds,
                 arbFoundOdds, arbBetAmount, timers, effectTimer, currentUser,
                 users, cardFrame>>

\* an updateDoc of the Header not yet settled: the amount, the fields
\* { ...currentUser } keeps of the currentUser of the render whose
\* handleBankrollSave and updateBankroll are running, and whether Firestore
\* has applied the write
Write(amount, user) ==
  [amount |-> amount, uid |-> user.uid, approved |-> user.approved,
   applied |-> FALSE]

\* the writes Firestore has not applied; it applies a client's writes in the
\* order of their issue
Unapplied == {i \in DOMAIN writes : ~writes[i].applied}

\* handleBankrollSave updating the local bankroll before the write settles
handleBankrollSave_LocalFirst(text) ==
  /\ ~IsNull(currentUser)
  /\ IF IsNaN(parseFloat(text)) \/ FLt(parseFloat(text), Num(0))
     THEN UNCHANGED <<writes, currentUser>>
     ELSE /\ BagCardinality(requests) + Len(writes) < MaxInFlight
          /\ writes' = Append(writes, Write(parseFloat(text), currentUser))
          /\ currentUser' = [currentUser EXCEPT !.bankroll = parseFloat(text)]
  /\ UNCHANGED <<isExpanded, analysis, isLoading, editableSharpML,
                 editableBestOfferOdds, arbFoundOdds, arbBetAmount, timers,
                 effectTimer, requests, users, cardFrame>>

\* Header.handleBankrollSave with bankrollInput = text, up to its await: an
\* alert and nothing else when the text is rejected
handleBankrollSave(text) ==
  /\ ~IsNull(currentUser)
  /\ IF IsNaN(parseFloat(text)) \/ FLt(parseFloat(text), Num(0))
     THEN UNCHANGED writes
     ELSE /\ BagCardinality(requests) + Len(writes) < MaxInFlight
          /\ writes' = Append(writes, Write(parseFloat(text), currentUser))
  /\ UNCHANGED <<isExpanded, analysis, isLoading, editableSharpML,
                 editableBestOfferOdds, arbFoundOdds, arbBetAmount, timers,
                 effectTimer, requests, currentUser, users, cardFrame>>

\* Firestore applies the oldest write it has not applied
WriteApplied ==
  /\ Unapplied # {}
  /\ \E i \in Unapplied :
       /\ \A j \in Unapplied : i <= j
       /\ writes' = [writes EXCEPT ![i].applied = TRUE]
       /\ users' = [users EXCEPT ![writes[i].uid].bankroll = writes[i].amount]
  /\ UNCHANGED <<isExpanded, analysis, isLoading, editableSharpML,
                 editableBestOfferOdds, arbFoundOdds, arbBetAmount, timers,
                 effectTimer, requests, currentUser, cardFrame>>

\* the promise of updateDoc resolves: updateBankroll(newBankroll) sets
\* { ...currentUser, bankroll: newBankroll } from the currentUser of its render
updateDocResolves ==
  /\ writes # <<>>
  /\ Head(writes).applied
  /\ currentUser' = [uid |-> Head(writes).uid, bankroll |-> Head(writes).amount,
                      approved |-> Head(writes).approved]
  /\ writes' = Tail(writes)
  /\ UNCHANGED <<isExpanded, analysis, isLoading, editableSharpML,
                 editableBestOfferOdds, arbFoundOdds, arbBetAmount, timers,
                 effectTimer, requests, users, cardFrame>>

\* the promise of updateDoc rejects, the write not applied: the catch block
\* alerts and nothing else
updateDocRejects ==
  /\ writes # <<>>
  /\ ~Head(writes).applied
  /\ writes' = Tail(writes)
  /\ UNCHANGED <<isExpanded, analysis, isLoading, editableSharpML,
                 editableBestOfferOdds, arbFoundOdds, arbBetAmount, timers,
                 effectTimer, requests, currentUser, users, cardFrame>>

CardNext ==
  \/ handleExpandModal
  \/ handleCloseModal
  \/ \E text \in SharpTexts : setEditableSharpML(text)
  \/ \E text \in OfferTexts : setEditableBestOfferOdds(text)
  \/ \E text \in ArbOddsTexts : setArbFoundOdds(text)
  \/ \E text \in ArbBetTexts : setArbBetAmount(text)
  \/ TimerFires
  \/ FetchSucceeds
  \/ FetchFails
  \/ \E text \in BankrollTexts : handleBankrollSave(text)
  \/ WriteApplied
  \/ updateDocResolves
  \/ updateDocRejects

CardSpec == CardInit /\ [][CardNext]_vars
(***************************************************************************)
(* AuthProvider, ProtectedRoute and the Login page.  Every await of a      *)
(* handler is a point where other events interleave: a step resolves or    *)
(* rejects the promise a handler or the listener is waiting for and runs   *)
(* the code up to the next await.  auth.signOut() clears the local session *)
(* and is taken to resolve.                                                *)
(***************************************************************************)
MaxEvents == 3

\* the accounts: one with an approved document, one with a document pending
\* approval, one without a document, and the one handleRequestAccess creates
Accounts == {"approved", "pending", "undocumented"}

MockUser == [uid |-> "mock-user", bankroll |-> Num(1000), approved |-> TRUE]

\* the document handleRequestAccess and handleGoogleSignIn write
PendingDocument == [bankroll |-> Num(0), approved |-> FALSE]

\* the collection users of Firestore at the start
Documents ==
  [u \in Accounts \cup {"new"} |->
     CASE u = "approved" -> [bankroll |-> Num(1000), approved |-> TRUE]
       [] u = "pending" -> PendingDocument
       [] OTHER -> Null]

\* ProtectedRoute without the test of currentUser.approved
ProtectedRoute_AnyUser(authLoading, user) ==
  IF authLoading THEN "Loading"
  ELSE IF IsNull(user) THEN "Navigate"
  ELSE "children"

\* components/auth/ProtectedRoute.tsx
ProtectedRoute(authLoading, user) ==
  IF authLoading THEN "Loading"
  ELSE IF IsNull(user) \/ ~user.approved THEN "Navigate"
  ELSE "children"

\* the ProtectedRoute of components/auth/Login.tsx
ProtectedRouteOfLogin(authLoading, user) ==
  IF authLoading THEN "Loading"
  ELSE IF ~isFirebaseConfigured THEN "children"
  ELSE IF IsNull(user) \/ ~user.approved THEN "Navigate"
  ELSE "children"

\* the user AuthProvider makes of a document snapshot
UserOfDocument(uid, document) ==
  IF IsNull(document) THEN Null
  ELSE [uid |-> uid, bankroll |-> BankrollOrZero(document),
        approved |-> document.approved]

\* Firebase Auth signs u in ("none": out) and notifies the listener
SignedIn(u) ==
  /\ session' = u
  /\ authEvents' = IF listening /\ session # u THEN Append(authEvents, u)
                   ELSE authEvents

\* no handler of the Login page has run: the record of a handler holds its
\* name, the await it is at, the account, and what it has done so far
NoHandler ==
  [name |-> "none", pc |-> "done", uid |-> "none", authenticated |-> FALSE,
   docRead |-> "unread", created |-> Null, signedOut |-> FALSE,
   navigated |-> FALSE]

\* what no event of the session changes
authFrame == <<fn, args, pc, ret, back, calls, cardVars, pageVars, isFirebaseConfigured>>

AuthInit ==
  /\ NoSingleCall
  /\ NoPages
  /\ NoCallers
  /\ NoCard
  /\ isFirebaseConfigured \in BOOLEAN
  /\ currentUser = Null
  /\ loading = TRUE
  /\ session \in IF isFirebaseConfigured THEN Accounts \cup {"none"} ELSE {"none"}
  /\ users = Documents
  /\ listening = FALSE
  /\ authEvents = <<>>
  /\ loads = {}
  /\ handler = NoHandler
  /\ route \in {"/login", "/dashboard"}
  /\ firebaseUser = Null
  /\ registered = Accounts

\* the effect of AuthProvider after the first render
AuthProviderEffect ==
  /\ ~listening
  /\ listening' = TRUE
  /\ IF ~isFirebaseConfigured
     THEN /\ currentUser' = MockUser
          /\ loading' = FALSE
          /\ UNCHANGED authEvents
     ELSE /\ authEvents' = <<session>>
          /\ UNCHANGED <<currentUser, loading>>
  /\ UNCHANGED <<firebaseUser, registered,
                 session, users, loads, handler, route, authFrame>>

\* the user onAuthStateChanged passes to its callback: null when signed out
FirebaseUser(u) == IF u = "none" THEN Null ELSE [uid |-> u]

\* the callback of onAuthStateChanged, up to its await
ListenerNotified ==
  /\ authEvents # <<>>
  /\ authEvents' = Tail(authEvents)
  /\ firebaseUser' = FirebaseUser(Head(authEvents))
  /\ IF Head(authEvents) = "none"
     THEN /\ currentUser' = Null
          /\ loading' = FALSE
          /\ UNCHANGED loads
     ELSE /\ loads' = loads \cup {Head(authEvents)}
          /\ UNCHANGED <<currentUser, loading>>
  /\ UNCHANGED <<registered,
                 session, users, listening, handler, route, authFrame>>

\* getDoc of the listener resolves, or rejects with nothing to catch it: the
\* callback ends at the rejection
ListenerLoaded_Uncaught ==
  /\ \E u \in loads :
       /\ loads' = loads \ {u}
       /\ \/ /\ currentUser' = UserOfDocument(u, users[u])
             /\ loading' = FALSE
          \/ UNCHANGED <<currentUser, loading>>
  /\ UNCHANGED <<firebaseUser, registered,
                 session, users, listening, authEvents, handler, route, authFrame>>

\* getDoc of the listener resolves, or rejects
ListenerLoaded ==
  /\ \E u \in loads :
       /\ loads' = loads \ {u}
       /\ \/ currentUser' = UserOfDocument(u, users[u])
          \/ currentUser' = Null
  /\ loading' = FALSE
  /\ UNCHANGED <<firebaseUser, registered,
                 session, users, listening, authEvents, handler, route, authFrame>>

\* <Navigate to="/login" replace /> of the ProtectedRoute around the dashboard
Redirected ==
  /\ route = "/dashboard"
  /\ ProtectedRoute(loading, currentUser) = "Navigate"
  /\ route' = "/login"
  /\ UNCHANGED <<firebaseUser, registered,
                 currentUser, loading, session, users, listening, authEvents,
                 loads, handler, authFrame>>

\* Header.handleLogout, the header being shown on the dashboard
handleLogout ==
  /\ route = "/dashboard"
  /\ ProtectedRoute(loading, currentUser) = "children"
  /\ isFirebaseConfigured
  /\ Len(authEvents) < MaxEvents
  /\ SignedIn("none")
  /\ route' = "/login"
  /\ UNCHANGED <<firebaseUser, registered,
                 currentUser, loading, users, listening, loads, handler, authFrame>>

\* a handler of the Login page starts and awaits Firebase Auth: handleLogin
\* and handleGoogleSignIn with an account, handleRequestAccess with a new one
HandlerStarts(name, who) ==
  /\ route = "/login"
  /\ handler.pc = "done"
  /\ Len(authEvents) + 2 <= MaxEvents
  /\ handler' = [NoHandler EXCEPT !.name = name, !.pc = "auth", !.uid = who]
  /\ UNCHANGED <<firebaseUser, registered,
                 currentUser, loading, session, users, listening, authEvents,
                 loads, route, authFrame>>

\* signInWithEmailAndPassword, createUserWithEmailAndPassword or
\* signInWithPopup resolves and signs the user in; an account is created
\* only for an e-mail that has none
Authenticated ==
  /\ handler.pc = "auth"
  /\ isFirebaseConfigured
  /\ IF handler.name = "handleRequestAccess"
     THEN handler.uid \notin registered
     ELSE handler.uid \in registered
  /\ registered' = registered \cup {handler.uid}
  /\ SignedIn(handler.uid)
  /\ handler' = [handler EXCEPT !.authenticated = TRUE,
                   !.pc = IF handler.name = "handleRequestAccess"
                          THEN "setDoc" ELSE "getDoc"]
  /\ UNCHANGED <<firebaseUser,
                 currentUser, loading, users, listening, loads, route, authFrame>>

\* an awaited promise rejects: the catch block sets the error and the
\* handler ends
Rejected ==
  /\ handler.pc \in {"auth", "getDoc", "setDoc"}
  /\ handler' = [handler EXCEPT !.pc = "done"]
  /\ UNCHANGED <<firebaseUser, registered,
                 currentUser, loading, session, users, listening, authEvents,
                 loads, route, authFrame>>

\* the state of a document as handleLogin and handleGoogleSignIn test it
StateOfDocument(document) ==
  IF IsNull(document) THEN "missing"
  ELSE IF ~document.approved THEN "pending"
  ELSE "approved"

\* where the handler goes after reading the document
AfterDocument(name, state) ==
  CASE state = "approved" -> "done"
    [] state = "missing" /\ name = "handleGoogleSignIn" -> "setDoc"
    [] OTHER -> "signOut"

\* getDoc of handleLogin or handleGoogleSignIn resolves; an approved user
\* is sent to the dashboard
DocumentRead ==
  /\ handler.pc = "getDoc"
  /\ handler' = [handler EXCEPT
       !.docRead = StateOfDocument(users[handler.uid]),
       !.pc = AfterDocument(handler.name, StateOfDocument(users[handler.uid])),
       !.navigated = StateOfDocument(users[handler.uid]) = "approved"]
  /\ route' = IF StateOfDocument(users[handler.uid]) = "approved"
              THEN "/dashboard" ELSE route
  /\ UNCHANGED <<firebaseUser, registered,
                 currentUser, loading, session, users, listening, authEvents,
                 loads, authFrame>>

\* setDoc of handleRequestAccess or handleGoogleSignIn resolves
DocumentCreated ==
  /\ handler.pc = "setDoc"
  /\ users' = [users EXCEPT ![handler.uid] = PendingDocument]
  /\ handler' = [handler EXCEPT !.created = PendingDocument, !.pc = "signOut"]
  /\ UNCHANGED <<firebaseUser, registered,
                 currentUser, loading, session, listening, authEvents, loads,
                 route, authFrame>>

\* auth.signOut() of a handler resolves
SignedOut ==
  /\ handler.pc = "signOut"
  /\ SignedIn("none")
  /\ handler' = [handler EXCEPT !.signedOut = TRUE, !.pc = "done"]
  /\ UNCHANGED <<firebaseUser, registered,
                 currentUser, loading, users, listening, loads, route, authFrame>>

AuthNext ==
  \/ AuthProviderEffect
  \/ ListenerNotified
  \/ ListenerLoaded
  \/ Redirected
  \/ handleLogout
  \/ \E who \in Accounts : HandlerStarts("handleLogin", who)
  \/ \E who \in Accounts : HandlerStarts("handleGoogleSignIn", who)
  \/ HandlerStarts("handleRequestAccess", "new")
  \/ Authenticated
  \/ Rejected
  \/ DocumentRead
  \/ DocumentCreated
  \/ SignedOut

AuthSpec == AuthInit /\ [][AuthNext]_vars

\* the promise of a getDoc the listener awaits settles: it resolves or rejects
AuthLiveSpec == AuthSpec /\ WF_vars(ListenerLoaded)

(***************************************************************************)
(* The AdminPanel of an administrator, and the Login page of another       *)
(* browser whose handlers write to the same collection users.  The other   *)
(* browser is signed out and its AuthProvider has delivered its first      *)
(* callback.  A write of handleApprove is applied by Firestore and then    *)
(* acknowledged, or it is rejected.                                        *)
(***************************************************************************)
MaxApprovals == 2

\* the order in which a query returns the documents: by document id
DocumentIds == <<"approved", "new", "pending", "undocumented">>

\* where('approved', '==', false)
Unapproved(document) ==
  IF IsNull(document) THEN FALSE ELSE document.approved = FALSE

IsListed(id) == Unapproved(users[id])

\* snapshot.docs.map(doc => ({ id: doc.id, ... })) of the query
PendingSnapshot == SelectSeq(DocumentIds, IsListed)

\* prev.filter(u => u.id !== userId)
FilterOut(prev, userId) ==
  SelectSeq(prev, LAMBDA id : id # userId)

Listed(list) == {list[i] : i \in DOMAIN list}

\* the writes of handleApprove that Firestore has not applied
UnappliedApprovals == {i \in DOMAIN approvals : ~approvals[i].applied}

\* what no event of the AdminPanel changes
adminFrame == <<fn, args, pc, ret, back, calls, cardVars, dashboardVars, view, currentUser, loading, session, loginVars>>

AdminInit ==
  /\ NoSingleCall
  /\ NoCallers
  /\ NoCard
  /\ NoDashboard
  /\ NoRender
  /\ NoAdmin
  /\ isFirebaseConfigured \in BOOLEAN
  /\ currentUser = IF isFirebaseConfigured THEN Null ELSE MockUser
  /\ loading = FALSE
  /\ session = "none"
  /\ users = Documents
  /\ listening = TRUE
  /\ authEvents = <<>>
  /\ loads = {}
  /\ handler = NoHandler
  /\ route = "/login"
  /\ firebaseUser = Null
  /\ registered = Accounts

\* the effect of AdminPanel after the first render: loadPendingUsers up to
\* its await
loadPendingUsers ==
  /\ panelLoading
  /\ ~listing
  /\ IF ~isFirebaseConfigured
     THEN /\ pendingUsers' = <<>>
          /\ panelLoading' = FALSE
          /\ UNCHANGED listing
     ELSE /\ listing' = TRUE
          /\ UNCHANGED <<pendingUsers, panelLoading>>
  /\ UNCHANGED <<approvals, users, adminFrame>>

\* getDocs resolves with the documents that are not approved
SnapshotArrives ==
  /\ listing
  /\ pendingUsers' = PendingSnapshot
  /\ listing' = FALSE
  /\ panelLoading' = FALSE
  /\ UNCHANGED <<approvals, users, adminFrame>>

\* getDocs rejects
SnapshotFails ==
  /\ listing
  /\ listing' = FALSE
  /\ panelLoading' = FALSE
  /\ UNCHANGED <<pendingUsers, approvals, users, adminFrame>>

\* handleApprove removing the user from the list before the write settles
handleApprove_RemovesFirst(userId) ==
  /\ ~panelLoading
  /\ isFirebaseConfigured
  /\ userId \in Listed(pendingUsers)
  /\ Len(approvals) < MaxApprovals
  /\ approvals' = Append(approvals, [uid |-> userId, applied |-> FALSE])
  /\ pendingUsers' = FilterOut(pendingUsers, userId)
  /\ UNCHANGED <<panelLoading, listing, users, adminFrame>>

\* handleApprove(userId) up to its await, from the Approve button of a row
handleApprove(userId) ==
  /\ ~panelLoading
  /\ isFirebaseConfigured
  /\ userId \in Listed(pendingUsers)
  /\ Len(approvals) < MaxApprovals
  /\ approvals' = Append(approvals, [uid |-> userId, applied |-> FALSE])
  /\ UNCHANGED <<pendingUsers, panelLoading, listing, users, adminFrame>>

\* Firestore applies the oldest write of handleApprove it has not applied
ApproveApplied ==
  /\ UnappliedApprovals # {}
  /\ \E i \in UnappliedApprovals :
       /\ \A j \in UnappliedApprovals : i <= j
       /\ ~IsNull(users[approvals[i].uid])
       /\ approvals' = [approvals EXCEPT ![i].applied = TRUE]
       /\ users' = [users EXCEPT ![approvals[i].uid].approved = TRUE]
  /\ UNCHANGED <<pendingUsers, panelLoading, listing, adminFrame>>

\* the promise of updateDoc resolves: the user is removed from the list
ApproveResolves ==
  /\ approvals # <<>>
  /\ Head(approvals).applied
  /\ pendingUsers' = FilterOut(pendingUsers, Head(approvals).uid)
  /\ approvals' = Tail(approvals)
  /\ UNCHANGED <<panelLoading, listing, users, adminFrame>>

\* the promise of updateDoc rejects, the write not applied: the catch block
\* logs the error
ApproveRejects ==
  /\ approvals # <<>>
  /\ ~Head(approvals).applied
  /\ approvals' = Tail(approvals)
  /\ UNCHANGED <<pendingUsers, panelLoading, listing, users, adminFrame>>

\* handleDeny(userId), from the Deny button of a row
handleDeny(userId) ==
  /\ ~panelLoading
  /\ isFirebaseConfigured
  /\ userId \in Listed(pendingUsers)
  /\ pendingUsers' = FilterOut(pendingUsers, userId)
  /\ UNCHANGED <<panelLoading, listing, approvals, users, adminFrame>>

\* the handlers of the Login page of the other browser; the callbacks of its
\* listener, which only read the collection, stay undelivered
OtherBrowser ==
  \/ \E who \in Accounts : HandlerStarts("handleLogin", who)
  \/ \E who \in Accounts : HandlerStarts("handleGoogleSignIn", who)
  \/ HandlerStarts("handleRequestAccess", "new")
  \/ Authenticated
  \/ Rejected
  \/ DocumentRead
  \/ DocumentCreated
  \/ SignedOut

AdminNext ==
  \/ loadPendingUsers
  \/ SnapshotArrives
  \/ SnapshotFails
  \/ \E userId \in Accounts \cup {"new"} : handleApprove(userId)
  \/ ApproveApplied
  \/ ApproveResolves
  \/ ApproveRejects
  \/ \E userId \in Accounts \cup {"new"} : handleDeny(userId)
  \/ OtherBrowser

AdminSpec == AdminInit /\ [][AdminNext]_vars

(***************************************************************************)
(* The Dashboard with its LeagueTabs.  A click on a tab runs               *)
(* handleTabClick, which sets the state of LeagueTabs and calls            *)
(* onLeagueChange, the handleLeagueChange of the Dashboard.                *)
(***************************************************************************)
MaxClicks == 3

\* the tabs of LeagueTabs, by id
tabs == <<"all", "nba", "ncaa", "nhl", "ufc">>

\* the games of mockGames, by id and sport
mockGames ==
  <<[id |-> "1", sport |-> "NBA"], [id |-> "2", sport |-> "NCAA"],
    [id |-> "3", sport |-> "NHL"], [id |-> "4", sport |-> "UFC"],
    [id |-> "5", sport |-> "NBA"]>>

\* String.prototype.toLowerCase on the texts that occur
toLowerCase(text) ==
  CASE text = "NBA" -> "nba"
    [] text = "NCAA" -> "ncaa"
    [] text = "NHL" -> "nhl"
    [] text = "UFC" -> "ufc"
    [] OTHER -> text

\* game => game.sport === selectedLeague, without the toLowerCase
SportMatches_CaseSensitive(game) == game.sport = selectedLeague

\* game => game.sport.toLowerCase() === selectedLeague.toLowerCase()
SportMatches(game) == toLowerCase(game.sport) = toLowerCase(selectedLeague)

\* the games the Dashboard renders
filteredGames ==
  IF selectedLeague = "all" THEN mockGames ELSE SelectSeq(mockGames, SportMatches)

\* const isActive = selectedLeague === tab.id, in LeagueTabs
isActive(tab) == tabsSelectedLeague = tab

DashboardInit ==
  /\ NoSingleCall
  /\ NoCallers
  /\ NoSession
  /\ NoCard
  /\ NoLogin
  /\ NoAdmin
  /\ NoRender
  /\ selectedLeague = "all"
  /\ tabsSelectedLeague = "all"
  /\ clicks = <<>>

\* onClick of the tab of a league
handleTabClick(league) ==
  /\ Len(clicks) < MaxClicks
  /\ tabsSelectedLeague' = league
  /\ selectedLeague' = league
  /\ clicks' = Append(clicks, league)
  /\ UNCHANGED <<fn, args, pc, ret, back, calls, currentUser, loading, session,
                 users, cardVars, loginVars, adminVars, view>>

DashboardNext == \E i \in DOMAIN tabs : handleTabClick(tabs[i])

DashboardSpec == DashboardInit /\ [][DashboardNext]_vars
(***************************************************************************)
(* The local calculations of the GameCard.  The card is expanded, its      *)
(* request to the backend has failed (analysis is null), and the user has  *)
(* left a pair of odds in the two inputs; the card renders with them.      *)
(***************************************************************************)
\* Math.max(sharpDecimal, pmDecimal)
bestOfferDecimal(sharpDec, pmDec) == MathMax(sharpDec, pmDec)

\* ev of a render without analysis: sharpProb * pmDecimalForEV - 1
ev(prob, pmDecimalForEV) == FSub(FMul(prob, pmDecimalForEV), Num(1))

\* the divisors of the divisions the render evaluates for kellyPercent
kellyDivisors(localEv, sharpDec, bestDec) ==
  IF FGt(localEv, Num(0)) THEN {FSub(bestDec, Num(1))} ELSE {}

\* kellyPercent dividing by the decimal odds of the sharp line
kellyPercent_SharpDivisor(localEv, sharpDec, bestDec) ==
  IF FGt(localEv, Num(0)) THEN FDiv(localEv, FSub(sharpDec, Num(1)))
  ELSE Num(0)

\* kellyPercent of a render without analysis
kellyPercent(localEv, sharpDec, bestDec) ==
  IF FGt(localEv, Num(0)) THEN FDiv(localEv, FSub(bestDec, Num(1)))
  ELSE Num(0)

\* the local values of a render, from its constants sharpDecimal,
\* bestOfferDecimal and ev
LocalValues(sharpDec, bestDec, localEv) ==
  [ev |-> localEv, hasPositiveEV |-> FGt(localEv, Num(0)),
   kellyPercent |-> kellyPercent(localEv, sharpDec, bestDec),
   kellyDivisors |-> kellyDivisors(localEv, sharpDec, bestDec)]

RenderInit ==
  /\ NoSingleCall
  /\ NoCallers
  /\ NoLogin
  /\ NoAdmin
  /\ NoDashboard
  /\ NoRender
  /\ loading = FALSE
  /\ session = "u1"
  /\ currentUser = [uid |-> "u1", bankroll |-> Num(1000), approved |-> TRUE]
  /\ users = [u \in {"u1"} |-> [bankroll |-> Num(1000), approved |-> TRUE]]
  /\ isExpanded = TRUE
  /\ analysis = Null
  /\ isLoading = FALSE
  /\ \E o \in AllOdds : editableSharpML = Num(o)
  /\ \E o \in PairOdds : editableBestOfferOdds = Num(o)
  /\ arbFoundOdds = Num(-110)
  /\ arbBetAmount = Num(100)
  /\ timers = {}
  /\ effectTimer = 0
  /\ requests = EmptyBag
  /\ writes = <<>>

\* the body of GameCard up to kellyPercent, in a render without analysis:
\* each constant is computed once, in the order of the source
GameCardRender ==
  /\ IsNull(analysis)
  /\ IsNull(view)
  /\ \E prob \in {sharpProb} : \E sharpDec \in {sharpDecimal} :
     \E pmDec \in {pmDecimal} :
     \E bestDec \in {bestOfferDecimal(sharpDec, pmDec)} :
     \E localEv \in {ev(prob, pmDec)} :
       view' = LocalValues(sharpDec, bestDec, localEv)
  /\ UNCHANGED <<fn, args, pc, ret, back, calls, currentUser, loading, session,
                 users, cardVars, loginVars, adminVars, dashboardVars>>

RenderNext == GameCardRender

RenderSpec == RenderInit /\ [][RenderNext]_vars









(***************************************************************************)
(* The claims of the specification, as formulas over a call and its        *)
(* result.                                                                 *)
(***************************************************************************)
\* |x - y| <= tol
Within(x, y, tol) == FLe(MathAbs(FSub(x, y)), tol)

\* 100 <= |o| <= 10000
InRoundTripRange(o) ==
  (100 <= o /\ o <= 10000) \/ (-10000 <= o /\ o <= -100)

\* C1 as stated: for every integer o with 100 <= |o| <= 10000, o = -100 and
\* o = +100 included, decimalToAmerican(americanToDecimal(o)) differs from o
\* by at most 1.
C1_RoundTripWithinOne ==
  (pc = "converted" /\ InRoundTripRange(args.americanOdds))
    => Within(back, Num(args.americanOdds), Num(1))

\* C1 amended: for every integer o with 100 <= |o| <= 10000 other than -100,
\* decimalToAmerican(americanToDecimal(o)) is o itself; for o = -100 (decimal
\* odds exactly 2) it is +100.
C1_RoundTripExceptEvenMoney ==
  (pc = "converted" /\ InRoundTripRange(args.americanOdds))
    => FEq(back, Num(IF args.americanOdds = -100 THEN 100
                     ELSE args.americanOdds))

\* C1 witness: -100 has been converted to decimal odds and back, giving +100
C1_EvenMoneyFlipped ==
  pc = "converted" /\ args.americanOdds = -100 /\ FEq(back, Num(100))


\* the call passes 0 for an odds argument
ZeroOddsCall ==
  \/ /\ fn \in {"americanToDecimal", "americanToImpliedProbability",
                "calculateEVPercentage", "calculateKellyCriterion"}
     /\ args.americanOdds = 0
  \/ fn = "detectArbitrage" /\ (args.oddsA = 0 \/ args.oddsB = 0)
  \/ /\ fn = "calculateArbProfitScenarios"
     /\ \/ args.sideAOdds = 0
        \/ \E i \in 1..Len(TestOddsOf(args)) : TestOddsOf(args)[i] = 0
  \/ fn = "completeAnalysis" /\ (args.sharpsOdds = 0 \/ args.pmOdds = 0)

\* C2 as stated: zero odds are rejected; americanToDecimal(0),
\* americanToImpliedProbability(0) and every operation that converts odds end
\* in a domain error when an odds argument is 0, so such a call never returns
\* a result.
C2_ZeroOddsNeverReturn == ZeroOddsCall => pc = "call"

\* C2 witness: americanToDecimal(0) has returned the number 1 to its caller
C2_ZeroOddsReturnedOne ==
  /\ fn = "americanToDecimal"
  /\ args.americanOdds = 0
  /\ pc = "returned"
  /\ FEq(ret, Num(1))

\* every number of a scenario is finite
ScenarioFinite(row) ==
  IsFinite(row.requiredBet) /\ IsFinite(row.profit) /\ IsFinite(row.roi)

\* every number of the result of the call is finite
FiniteResult ==
  CASE fn \in {"calculateKellyCriterion", "decimalToAmerican"} -> IsFinite(ret)
    [] fn = "detectArbitrage" -> IsFinite(ret.arbPercentage)
    [] fn = "calculateArbProfitScenarios" ->
         \A i \in DOMAIN ret : ScenarioFinite(ret[i])
    [] OTHER -> TRUE

\* C3 as stated: no engine function returns a non-finite value; for every
\* numeric input, odds 0 and decimal odds 1 included, calculateKellyCriterion,
\* decimalToAmerican, detectArbitrage and calculateArbProfitScenarios return
\* finite numbers (or report an error).
C3_NoNonFiniteResult ==
  /\ pc = "returned" => FiniteResult
  /\ pc = "converted" => IsFinite(back)

\* C3 witness: calculateKellyCriterion has returned Infinity for a positive
\* EV at odds 0
C3_KellyReturnedInfinity ==
  /\ fn = "calculateKellyCriterion"
  /\ pc = "returned"
  /\ args.americanOdds = 0
  /\ ret = Inf(0)


\* calculateArbProfitScenarios has returned for nonzero odds on both sides
\* (betAmount >= 0 holds for every modelled call)
ScenariosReturned ==
  /\ pc = "returned"
  /\ fn = "calculateArbProfitScenarios"
  /\ args.sideAOdds # 0
  /\ \A i \in 1..Len(TestOddsOf(args)) : TestOddsOf(args)[i] # 0

\* the profit if side A wins, staking the returned requiredBet of scenario i
ProfitIfAWins(i) ==
  FSub(FSub(FMul(Num(args.betAmount), americanToDecimal(Num(args.sideAOdds))),
            Num(args.betAmount)),
       ret[i].requiredBet)

\* the profit if side B wins, staking the returned requiredBet of scenario i
ProfitIfBWins(i) ==
  FSub(FSub(FMul(ret[i].requiredBet, americanToDecimal(ret[i].odds)),
            ret[i].requiredBet),
       Num(args.betAmount))

\* the tolerances: one cent and half a cent, each with room for the rounding
\* error of the arithmetic that compares two amounts, below 1e-9
RoundingNoise == Ratio(<<1, 1000000000>>)

OneCent == FAdd(Ratio(<<1, 100>>), RoundingNoise)

\* half a cent for each unit of the decimal odds of side B
HalfCentTimes(decimalOddsB) ==
  FAdd(FMul(Ratio(<<5, 1000>>), decimalOddsB), RoundingNoise)

\* C4 as stated: for every returned scenario (nonzero odds, betAmount >= 0)
\* the profit if side A wins equals the profit if side B wins, and both equal
\* the reported profit, within one cent.
C4_HedgeEqualWithinOneCent ==
  ScenariosReturned =>
    \A i \in DOMAIN ret :
      /\ Within(ProfitIfAWins(i), ProfitIfBWins(i), OneCent)
      /\ Within(ProfitIfAWins(i), ret[i].profit, OneCent)
      /\ Within(ProfitIfBWins(i), ret[i].profit, OneCent)

\* C4 amended: for every returned scenario (nonzero odds, betAmount >= 0) the
\* profit if side A wins equals the reported profit within one cent, and the
\* profit if side B wins equals both within half a cent times the decimal odds
\* of side B: requiredBet is rounded to the cent, and side B pays that
\* rounding multiplied by its decimal odds.
C4_HedgeEqualUpToRoundedStake ==
  ScenariosReturned =>
    \A i \in DOMAIN ret :
      /\ Within(ProfitIfAWins(i), ret[i].profit, OneCent)
      /\ Within(ProfitIfBWins(i), ProfitIfAWins(i),
                HalfCentTimes(americanToDecimal(ret[i].odds)))
      /\ Within(ProfitIfBWins(i), ret[i].profit,
                HalfCentTimes(americanToDecimal(ret[i].odds)))

\* C4 witness: a scenario at +10000 has been returned whose two outcomes
\* differ by more than one cent
C4_LongOddsHedgeReturned ==
  /\ ScenariosReturned
  /\ \E i \in DOMAIN ret :
       /\ ret[i].odds = Num(10000)
       /\ ~Within(ProfitIfAWins(i), ProfitIfBWins(i), OneCent)


\* calculateEVPercentage has returned for nonzero odds (every modelled
\* probability is in (0,1))
EvReturned ==
  pc = "returned" /\ fn = "calculateEVPercentage" /\ args.americanOdds # 0

\* the probability the odds of the call imply
ImpliedOfCall == americanToImpliedProbability(Num(args.americanOdds))

\* C5 as stated: for every p in (0,1) and nonzero odds o,
\* calculateEVPercentage(p, o) > 0 if and only if
\* p > americanToImpliedProbability(o), and EV is exactly 0 when p equals the
\* implied probability.
C5_EvPositiveIffAboveImplied ==
  EvReturned =>
    /\ FGt(ret, Num(0)) <=> FGt(Ratio(args.yourProbability), ImpliedOfCall)
    /\ FEq(Ratio(args.yourProbability), ImpliedOfCall) => FEq(ret, Num(0))

\* C5 amended: for every p in (0,1) and nonzero odds o, when p differs from
\* americanToImpliedProbability(o) by more than 1e-9,
\* calculateEVPercentage(p, o) > 0 if and only if p is the greater; when p
\* equals the implied probability EV is 0 up to rounding error (|EV| <= 1e-9)
\* and may be of either sign.
C5_EvSignAwayFromImplied ==
  EvReturned =>
    /\ ~Within(Ratio(args.yourProbability), ImpliedOfCall, RoundingNoise)
         => (FGt(ret, Num(0))
               <=> FGt(Ratio(args.yourProbability), ImpliedOfCall))
    /\ FEq(Ratio(args.yourProbability), ImpliedOfCall)
         => Within(ret, Num(0), RoundingNoise)

\* C5 witness: p is the implied probability of +150 and the EV returned is
\* positive
C5_PositiveEvAtImplied ==
  /\ EvReturned
  /\ args.americanOdds = 150
  /\ FEq(Ratio(args.yourProbability), ImpliedOfCall)
  /\ FGt(ret, Num(0))

\* calculateKellyCriterion has returned for nonzero odds
KellyReturned ==
  pc = "returned" /\ fn = "calculateKellyCriterion" /\ args.americanOdds # 0

\* C6: for every nonzero odds o, calculateKellyCriterion(ev, o) returns
\* exactly 0 when ev <= 0 and, when ev > 0, a strictly positive value equal to
\* ev / (americanToDecimal(o) - 1); it is never negative.
C6_KellySign ==
  KellyReturned =>
    /\ ~FLt(ret, Num(0))
    /\ FLe(Ratio(args.evPercentage), Num(0)) => ret = Num(0)
    /\ FGt(Ratio(args.evPercentage), Num(0))
         => /\ FGt(ret, Num(0))
            /\ FEq(ret, FDiv(Ratio(args.evPercentage),
                             FSub(americanToDecimal(Num(args.americanOdds)),
                                  Num(1))))

\* C6 witness: an EV of 0.05 at -110 has returned a Kelly fraction between
\* 0.05 and 0.06
C6_KellyPositiveForPositiveEv ==
  /\ KellyReturned
  /\ args.evPercentage = <<5, 100>>
  /\ args.americanOdds = -110
  /\ FGt(ret, Ratio(<<5, 100>>))
  /\ FLt(ret, Ratio(<<6, 100>>))

\* detectArbitrage has returned
ArbitrageReturned == pc = "returned" /\ fn = "detectArbitrage"

\* the sum of the probabilities the two odds of the call imply
ProbSumOfCall ==
  FAdd(americanToImpliedProbability(Num(args.oddsA)),
       americanToImpliedProbability(Num(args.oddsB)))

ImpliedReturned ==
  /\ pc = "returned"
  /\ fn = "americanToImpliedProbability"
  /\ args.americanOdds # 0

\* C8: for every nonzero American odds o of the modelled range (either sign,
\* 1 <= |o| <= 10000), americanToImpliedProbability(o) is strictly greater
\* than 0 and strictly less than 1.
C8_ImpliedProbabilityInUnitInterval ==
  ImpliedReturned => FGt(ret, Num(0)) /\ FLt(ret, Num(1))

\* C8 witness: the implied probability of -10000 has been returned and is
\* above 0.99
C8_HeavyFavoriteImplied ==
  /\ ImpliedReturned
  /\ args.americanOdds = -10000
  /\ FGt(ret, Ratio(<<99, 100>>))


\* completeAnalysis has returned
AnalysisReturned == pc = "returned" /\ fn = "completeAnalysis"

\* the EV of each side of the call of completeAnalysis
EdgeVsSharpsOfCall ==
  calculateEVPercentage(Ratio(args.yourProbabilityAgainstFav),
                        Num(args.sharpsOdds))

EdgeVsPMOfCall ==
  calculateEVPercentage(Ratio(args.yourProbabilityAgainstFav),
                        Num(args.pmOdds))

\* the odds of the side the result recommends
RecommendedOddsOfResult ==
  IF ret.recommendedSide = "sharps" THEN args.sharpsOdds ELSE args.pmOdds

\* compareBets has returned
CompareReturned == pc = "returned" /\ fn = "compareBets"

\* the EV of each option of the call of compareBets
Ev1OfCall ==
  calculateEVPercentage(Ratio(args.yourProbability), Num(args.option1Odds))

Ev2OfCall ==
  calculateEVPercentage(Ratio(args.yourProbability), Num(args.option2Odds))

\* C9: completeAnalysis recommends the side with the strictly higher EV,
\* reports evPercentage = max(edgeVsSharps, edgeVsPM) and computes Kelly with
\* the odds of the recommended side; when the two EVs are equal it recommends
\* "pm".  compareBets applies the same rule ("option2" on a tie).
C9_RecommendsHigherEvTieToSecond ==
  /\ AnalysisReturned =>
       /\ FGt(EdgeVsSharpsOfCall, EdgeVsPMOfCall)
            => ret.recommendedSide = "sharps"
       /\ FGt(EdgeVsPMOfCall, EdgeVsSharpsOfCall) => ret.recommendedSide = "pm"
       /\ FEq(EdgeVsSharpsOfCall, EdgeVsPMOfCall) => ret.recommendedSide = "pm"
       /\ FEq(ret.evPercentage, MathMax(EdgeVsSharpsOfCall, EdgeVsPMOfCall))
       /\ ret.fullKellyPercent
            = calculateKellyCriterion(ret.evPercentage,
                                      Num(RecommendedOddsOfResult))
  /\ CompareReturned =>
       /\ FGt(Ev1OfCall, Ev2OfCall) => ret.recommended = "option1"
       /\ FGt(Ev2OfCall, Ev1OfCall) => ret.recommended = "option2"
       /\ FEq(Ev1OfCall, Ev2OfCall) => ret.recommended = "option2"

\* C9 witness: completeAnalysis has returned for -100 against +100, two
\* prices of equal EV, and recommends "pm"
C9_TieRecommendsPm ==
  /\ AnalysisReturned
  /\ args.sharpsOdds = -100
  /\ args.pmOdds = 100
  /\ FEq(ret.edgeVsSharps, ret.edgeVsPM)
  /\ ret.recommendedSide = "pm"

\* the fields of the result of completeAnalysis that carry a stake: all but
\* the probabilities, the edges, the side, the EV, the Kelly fraction and the
\* arbitrage result
StakeFields ==
  DOMAIN ret \ {"sharpsImpliedProb", "pmImpliedProb", "edgeVsSharps",
                "edgeVsPM", "recommendedSide", "evPercentage",
                "fullKellyPercent", "arbInfo"}

\* bankroll * kelly * scale, for the Kelly fraction of the result
StakeAtScale(kellyFraction) ==
  calculateBetSize(Num(args.bankroll), ret.fullKellyPercent, kellyFraction)

\* C10 as stated: completeAnalysis returns all three stake scales for the
\* recommended side, a full-Kelly stake bankroll*kelly*1, a half-Kelly stake
\* bankroll*kelly*0.5 and a quarter-Kelly stake bankroll*kelly*0.25, together
\* with the result of detectArbitrage(sharpsOdds, pmOdds).
C10_ThreeStakeScalesReturned ==
  AnalysisReturned =>
    /\ \E f \in StakeFields : \E g \in StakeFields \ {f} :
         \E h \in StakeFields \ {f, g} :
           /\ ret[f] = StakeAtScale("full")
           /\ ret[g] = StakeAtScale("half")
           /\ ret[h] = StakeAtScale("quarter")
    /\ ret.arbInfo = detectArbitrage(Num(args.sharpsOdds), Num(args.pmOdds))

\* C10 witness: completeAnalysis has returned for a bankroll of 1000 with a
\* positive Kelly fraction, and the only stakes of the result are the half
\* and the quarter stake
C10_OnlyHalfAndQuarterStake ==
  /\ AnalysisReturned
  /\ args.bankroll = 1000
  /\ FGt(ret.fullKellyPercent, Num(0))
  /\ StakeFields = {"halfKellyBetSize", "quarterKellyBetSize"}
  /\ ret.halfKellyBetSize = StakeAtScale("half")
  /\ ret.quarterKellyBetSize = StakeAtScale("quarter")
  /\ ret.arbInfo = detectArbitrage(Num(args.sharpsOdds), Num(args.pmOdds))

ValidationReturned(f) == pc = "returned" /\ fn = f

\* lo <= n/d <= hi for a literal n/d with d > 0
LitInRange(l, lo, hi) == lo * l[2] <= l[1] /\ l[1] <= hi * l[2]

OddsShouldBeValid(w) ==
  /\ w.type = "number"
  /\ w.kind = "fin"
  /\ LitInRange(w.lit, -1000, 10000)
  /\ w.lit[1] # 0

BankrollShouldBeValid(w) ==
  /\ w.type = "number"
  /\ \/ w.kind = "negzero"
     \/ w.kind = "fin" /\ LitInRange(w.lit, 0, 1000000)

HasErrorMessage(r) == "error" \in DOMAIN r /\ r.error # ""

\* C11: validateOdds(x) answers isValid = true exactly when x is a number
\* with -1000 <= x <= 10000 and x # 0, validateBankroll(a) exactly when a is
\* a number with 0 <= a <= 1,000,000; every other input is answered with
\* isValid = false and an error message.
C11_ValidatorsExact ==
  /\ ValidationReturned("validateOdds") =>
       /\ ret.isValid = OddsShouldBeValid(args.odds)
       /\ ~ret.isValid => HasErrorMessage(ret)
  /\ ValidationReturned("validateBankroll") =>
       /\ ret.isValid = BankrollShouldBeValid(args.amount)
       /\ ~ret.isValid => HasErrorMessage(ret)

\* validateOdds(0) has answered that zero odds are invalid
C11_ZeroOddsRejected ==
  /\ ValidationReturned("validateOdds")
  /\ args.odds = Written("number", "fin", <<0, 1>>)
  /\ ret = InvalidResult("Odds cannot be zero")

ScenariosCalled ==
  fn = "calculateArbProfitScenarios" /\ pc \in {"returned", "repeated"}

\* the candidate prices of the call: the list given, or the documented sweep
CandidatesOfCall ==
  IF args.given THEN args.testOdds
  ELSE <<-150, -140, -130, -120, -110, 110, 120, 130, 140, 150>>

OneScenarioPerCandidate ==
  /\ DOMAIN ret = 1..Len(CandidatesOfCall)
  /\ \A i \in DOMAIN ret : ret[i].odds = Num(CandidatesOfCall[i])
  /\ pc = "repeated" => back = ret

\* C13: calculateArbProfitScenarios returns a finite sequence with exactly
\* one scenario per candidate price, in the order of the input list, each
\* scenario's odds field equal to its candidate; with no list given the
\* candidates are -150, -140, -130, -120, -110, 110, 120, 130, 140, 150; a
\* second call with the same arguments returns the same sequence, and no step
\* modifies the arguments, the input list among them.
C13_OneScenarioPerCandidateInOrder ==
  /\ [](ScenariosCalled => OneScenarioPerCandidate)
  /\ [][args' = args]_vars

\* the default sweep was returned twice for a call without a list
C13_DefaultSweepRepeated ==
  /\ fn = "calculateArbProfitScenarios"
  /\ pc = "repeated"
  /\ ~args.given
  /\ DOMAIN back = 1..10
  /\ back[1].odds = Num(-150)
  /\ back[10].odds = Num(150)

\* betAmount * decimal(sideAOdds) / decimal(counterOdds) for candidate i
HedgeStakeOfCall(i) ==
  FDiv(FMul(Num(args.betAmount), americanToDecimal(Num(args.sideAOdds))),
       americanToDecimal(Num(CandidatesOfCall[i])))

\* betAmount * decimal(sideAOdds) - betAmount - hedge stake for candidate i
HedgeProfitOfCall(i) ==
  FSub(FSub(FMul(Num(args.betAmount), americanToDecimal(Num(args.sideAOdds))),
            Num(args.betAmount)),
       HedgeStakeOfCall(i))

HalfCent == FAdd(Ratio(<<5, 1000>>), RoundingNoise)

\* C14 as stated: in every scenario the hedge stake is
\* betAmount * decimal(sideAOdds) / decimal(counterOdds) and the profit is
\* betAmount * decimal(sideAOdds) - betAmount - hedge stake.
C14_HedgeAndProfitAreTheFormulas ==
  ScenariosCalled =>
    \A i \in DOMAIN ret :
      /\ FEq(ret[i].requiredBet, HedgeStakeOfCall(i))
      /\ FEq(ret[i].profit, HedgeProfitOfCall(i))

\* C14 amended: in every scenario requiredBet and profit are the two formulas
\* each rounded to the nearest cent, so within half a cent of them; locking
\* -110 with a stake of 1000 and hedging at +100 gives 954.55 and -45.45.
C14_HedgeAndProfitRoundedToCent ==
  ScenariosCalled =>
    /\ \A i \in DOMAIN ret :
         /\ Within(ret[i].requiredBet, HedgeStakeOfCall(i), HalfCent)
         /\ Within(ret[i].profit, HedgeProfitOfCall(i), HalfCent)
    /\ (args.sideAOdds = -110 /\ args.betAmount = 1000 /\ args.given
        /\ args.testOdds = <<100>>) =>
         /\ ret[1].requiredBet = Ratio(<<95455, 100>>)
         /\ ret[1].profit = Ratio(<<-4545, 100>>)

\* the hedge of -110 with 1000 at +100 was returned as 954.55, not 954.5454...
C14_LiteralHedgeReturned ==
  /\ pc = "returned"
  /\ fn = "calculateArbProfitScenarios"
  /\ args.sideAOdds = -110
  /\ args.betAmount = 1000
  /\ args.given
  /\ args.testOdds = <<100>>
  /\ ret[1].requiredBet = Ratio(<<95455, 100>>)
  /\ FLt(ret[1].profit, Num(0))
  /\ ~FEq(ret[1].requiredBet, HedgeStakeOfCall(1))

\* betAmount + hedge stake for candidate i
TotalRiskOfCall(i) == FAdd(Num(args.betAmount), HedgeStakeOfCall(i))

RoiOfCall(i) == FDiv(HedgeProfitOfCall(i), TotalRiskOfCall(i))

\* half a unit of the fourth decimal place
HalfTenThousandth == FAdd(Ratio(<<5, 100000>>), RoundingNoise)

\* C15 as stated: in every scenario roi equals profit / (betAmount + hedge
\* stake) when that total risk is strictly positive and is exactly 0
\* otherwise.
C15_RoiIsProfitOverRisk ==
  ScenariosCalled =>
    \A i \in DOMAIN ret :
      IF FGt(TotalRiskOfCall(i), Num(0))
      THEN FEq(ret[i].roi, RoiOfCall(i))
      ELSE ret[i].roi = Num(0)

\* C15 amended: roi is profit / (betAmount + hedge stake) rounded to four
\* decimal places when the total risk is strictly positive, and exactly 0
\* otherwise; the quotient by a zero total risk (NaN) is never returned.
C15_RoiRoundedOrZero ==
  ScenariosCalled =>
    \A i \in DOMAIN ret :
      IF FGt(TotalRiskOfCall(i), Num(0))
      THEN Within(ret[i].roi, RoiOfCall(i), HalfTenThousandth)
      ELSE ret[i].roi = Num(0)

\* a call with betAmount = 0 returned scenarios of total risk 0 and roi 0
C15_ZeroStakeRoiZero ==
  /\ pc = "returned"
  /\ fn = "calculateArbProfitScenarios"
  /\ args.betAmount = 0
  /\ 1 \in DOMAIN ret
  /\ IsZero(TotalRiskOfCall(1))
  /\ ret[1].roi = Num(0)

CallerReturned(c) == calls[c].pc = "returned"

AcceptedOdds(odds) == validateOdds(JsValue("number", odds)).isValid

AcceptedBankroll(amount) == validateBankroll(JsValue("number", amount)).isValid

\* C12 as stated: after any sequence of edits of the odds inputs of the
\* GameCard and of bankroll saves of the Header, every odds value passed to
\* the engine functions or posted to /calculate is nonzero and within
\* [-1000, 10000], every stored or forwarded bankroll is within
\* [0, 1,000,000], and decimal odds of exactly 1 are never reached.
C12_OnlyValidatedInputsReachTheEngine ==
  /\ AcceptedOdds(editableSharpML)
  /\ AcceptedOdds(editableBestOfferOdds)
  /\ AcceptedOdds(arbFoundOdds)
  /\ ~FEq(sharpDecimal, Num(1))
  /\ ~FEq(pmDecimal, Num(1))
  /\ \A r \in InFlight :
       AcceptedOdds(r.sharp_odds) /\ AcceptedOdds(r.pm_odds) /\ AcceptedBankroll(r.bankroll)
  /\ AcceptedBankroll(currentUser.bankroll)
  /\ AcceptedBankroll(users[currentUser.uid].bankroll)

\* a cleared sharp line input has been posted as odds 0 with a bankroll of
\* 2,000,000, and the render computes decimal odds 1 from it
C12_ZeroOddsAndLargeBankrollPosted ==
  /\ editableSharpML = Num(0)
  /\ sharpDecimal = Num(1)
  /\ sharpProb = Num(1)
  /\ users["u1"].bankroll = Num(2000000)
  /\ \E r \in InFlight : r.sharp_odds = Num(0) /\ r.bankroll = Num(2000000)

ModalClosed == isExpanded /\ ~isExpanded'

EditableOddsChanged ==
  <<editableSharpML, editableBestOfferOdds>>' # <<editableSharpML, editableBestOfferOdds>>

\* a pending timer will fetch with the editable odds as they are now
FetchesLatestOdds(t) ==
  t.body.sharp_odds = editableSharpML /\ t.body.pm_odds = editableBestOfferOdds

\* C20: the debounced refetch of the GameCard.  A timer is pending only
\* while the modal is open and an analysis exists, and is set only then; at
\* most one timer is pending at any time; the pending timer carries the
\* latest editable odds, so a timer that fires fetches with them; every
\* change of the editable odds and closing the modal cancels the timer that
\* was pending.
C20_DebouncedRefetch ==
  /\ [](timers # {} => isExpanded /\ ~IsNull(analysis))
  /\ [](Cardinality(timers) <= 1)
  /\ [](\A t \in timers : FetchesLatestOdds(t))
  /\ [][(timers' \ timers # {}) => (isExpanded' /\ ~IsNull(analysis'))]_vars
  /\ [][(ModalClosed \/ EditableOddsChanged) => timers \cap timers' = {}]_vars
  /\ [][(timers \ timers' # {} /\ ~ModalClosed /\ ~EditableOddsChanged) =>
          \E t \in timers : /\ FetchesLatestOdds(t)
                            /\ timers' = timers \ {t}
                            /\ t.body \in InFlight']_vars

\* after two edits a single timer is pending, set for the odds of the second
C20_TimerOfLastEditPending ==
  /\ isExpanded
  /\ editableSharpML = Num(0)
  /\ editableBestOfferOdds = Num(20000)
  /\ Cardinality(timers) = 1
  /\ \A t \in timers : FetchesLatestOdds(t)

\* loading is false and currentUser is a user with approved = true
ApprovedUserLoaded ==
  IF loading \/ IsNull(currentUser) THEN FALSE ELSE currentUser.approved

\* what the two route guards of the source render in this state
Guards ==
  {ProtectedRoute(loading, currentUser), ProtectedRouteOfLogin(loading, currentUser)}

\* C16: in every reachable state of AuthProvider and ProtectedRoute the
\* dashboard children are rendered only if loading is false and currentUser
\* is non-null with approved = true; while loading only the Loading screen is
\* shown, and otherwise the guard redirects to /login.
C16_RouteGuard ==
  /\ "children" \in Guards => ApprovedUserLoaded
  /\ loading => Guards = {"Loading"}
  /\ (~loading /\ ~ApprovedUserLoaded) => Guards = {"Navigate"}

\* the dashboard is shown to the approved user that handleLogin let in
C16_ApprovedUserOnDashboard ==
  /\ route = "/dashboard"
  /\ Guards = {"children"}
  /\ isFirebaseConfigured
  /\ IF IsNull(currentUser) THEN FALSE ELSE currentUser.uid = "approved"
  /\ handler.name = "handleLogin"
  /\ handler.navigated

HandlerDone(names) == handler.name \in names /\ handler.pc = "done"

\* C17 as stated: whenever handleLogin or handleGoogleSignIn authenticates a
\* user whose document is missing or has approved = false, the handler signs
\* the session out and never navigates to /dashboard; it navigates only
\* after a document with approved = true was read.
C17_UnapprovedSignedOutNeverNavigated ==
  /\ handler.navigated => handler.docRead = "approved"
  /\ (/\ HandlerDone({"handleLogin", "handleGoogleSignIn"})
      /\ handler.authenticated
      /\ StateOfDocument(users[handler.uid]) # "approved") =>
       handler.signedOut /\ ~handler.navigated

\* handleLogin has ended with the pending user signed in: getDoc rejected
C17_PendingUserLeftSignedIn ==
  /\ HandlerDone({"handleLogin"})
  /\ handler.uid = "pending"
  /\ handler.authenticated
  /\ handler.docRead = "unread"
  /\ ~handler.signedOut
  /\ ~handler.navigated
  /\ session = "pending"

\* C18 as stated: every user document created by handleRequestAccess or by
\* handleGoogleSignIn for a new user has approved = false and bankroll = 0,
\* and whenever handleRequestAccess has created an auth account the account
\* is signed out by the time the handler finishes, on every path, a failed
\* document write included.
C18_RequestsPendingAndSignedOut ==
  /\ IF IsNull(handler.created) THEN TRUE
     ELSE /\ handler.created.approved = FALSE
          /\ handler.created.bankroll = Num(0)
          /\ users[handler.uid] = handler.created
  /\ (HandlerDone({"handleRequestAccess"}) /\ handler.authenticated) =>
       handler.signedOut

\* handleRequestAccess has ended with the new account signed in and without
\* a document: setDoc rejected
C18_NewAccountLeftSignedIn ==
  /\ HandlerDone({"handleRequestAccess"})
  /\ handler.authenticated
  /\ IsNull(handler.created)
  /\ IsNull(users["new"])
  /\ ~handler.signedOut
  /\ session = "new"

\* the bankroll of the user document in Firestore, and the local one
FirestoreBankroll == users[currentUser.uid].bankroll

LocalBankroll == currentUser.bankroll

\* a save of the Header completes: the promise of its updateDoc settles
SaveCompletes == writes # <<>> /\ writes' = Tail(writes)

\* C21 as stated: a rejected text and a failed write change neither
\* bankroll, the local bankroll is updated only after the write succeeded,
\* and after every completed save the local and the Firestore bankroll are
\* equal.
C21_EqualAfterEverySave ==
  [][SaveCompletes => LocalBankroll' = FirestoreBankroll']_vars

\* C21: no step other than the settling of a write changes a bankroll (a
\* rejected text changes nothing); a failed write changes neither bankroll;
\* the local bankroll changes only when a write that Firestore has applied
\* resolves, and then to the amount written; and whenever no save is in
\* flight the local and the Firestore bankroll are equal.
C21_SavedBankrollsAgree ==
  /\ [](writes = <<>> => LocalBankroll = FirestoreBankroll)
  /\ [][Len(writes') >= Len(writes) =>
          LocalBankroll' = LocalBankroll]_vars
  /\ [][(Len(writes') > Len(writes) \/ writes' = writes) =>
          FirestoreBankroll' = FirestoreBankroll]_vars
  /\ [][(SaveCompletes /\ ~Head(writes).applied) =>
          /\ LocalBankroll' = LocalBankroll
          /\ FirestoreBankroll' = FirestoreBankroll]_vars
  /\ [][LocalBankroll' # LocalBankroll =>
          /\ SaveCompletes
          /\ Head(writes).applied
          /\ LocalBankroll' = Head(writes).amount]_vars

\* a save of 2,000,000 has completed: both bankrolls hold it
C21_SaveCompleted ==
  /\ writes = <<>>
  /\ LocalBankroll = Num(2000000)
  /\ FirestoreBankroll = Num(2000000)

\* the first of two overlapping saves has completed with the second already
\* applied by Firestore
C21_OverlappingSaves ==
  /\ Len(writes) = 1
  /\ writes[1].applied
  /\ LocalBankroll = Num(2000000)
  /\ FirestoreBankroll = Num(1000)

\* the stored analysis answers a request made for the editable odds shown
AnalysisOfDisplayedOdds ==
  IF IsNull(analysis) THEN FALSE
  ELSE /\ analysis.request.sharp_odds = editableSharpML
       /\ analysis.request.pm_odds = editableBestOfferOdds

\* every request has completed and no refetch is scheduled
AllRequestsCompleted == requests = EmptyBag /\ timers = {}

\* C25 as stated: for every interleaving of overlapping /calculate requests,
\* once all requests have completed the stored analysis is the response to
\* the request issued for the editable odds displayed in the open modal, and
\* isLoading is true whenever a request is still in flight.
C25_LatestResponseStored ==
  /\ (isExpanded /\ AllRequestsCompleted /\ ~IsNull(analysis)) =>
       AnalysisOfDisplayedOdds
  /\ requests # EmptyBag => isLoading

\* the modal shows the odds 0 and 20000, nothing is in flight or scheduled,
\* and the stored analysis is the response to a request for 0 and -108
C25_EarlierResponseStored ==
  /\ isExpanded
  /\ AllRequestsCompleted
  /\ ~isLoading
  /\ editableSharpML = Num(0)
  /\ editableBestOfferOdds = Num(20000)
  /\ IF IsNull(analysis) THEN FALSE
     ELSE /\ analysis.request.sharp_odds = Num(0)
          /\ analysis.request.pm_odds = Num(bestPMOdds)

\* the document of user u exists with approved = true
Approved(u) == IF IsNull(users[u]) THEN FALSE ELSE users[u].approved

\* the promise of the oldest write of handleApprove settles
ApproveSettles == approvals # <<>> /\ approvals' = Tail(approvals)

\* user u leaves the pending list
Removed(u) == u \in Listed(pendingUsers) /\ u \notin Listed(pendingUsers')

ActiveTabs == {i \in DOMAIN tabs : isActive(tabs[i])}

\* the sport of a league, as mockGames writes it
SportOf(league) ==
  CASE league = "nba" -> "NBA"
    [] league = "ncaa" -> "NCAA"
    [] league = "nhl" -> "NHL"
    [] league = "ufc" -> "UFC"
    [] OTHER -> "none"

\* the positions in mockGames of the games of the selected league
GamesOfLeague == {i \in DOMAIN mockGames : mockGames[i].sport = SportOf(selectedLeague)}

CallbackDelivered == authEvents # <<>> /\ authEvents' = Tail(authEvents)

C26_CurrentUserIsFirebaseUser ==
  (~loading /\ isFirebaseConfigured /\ ~IsNull(currentUser)) =>
    IF IsNull(firebaseUser) THEN FALSE ELSE firebaseUser.uid = currentUser.uid

\* the approved user's document arrived after the sign-out was delivered:
\* nobody is signed in, nothing is pending, and currentUser is that user
C26_SignedOutUserRestored ==
  /\ isFirebaseConfigured
  /\ ~loading
  /\ session = "none"
  /\ authEvents = <<>>
  /\ loads = {}
  /\ IsNull(firebaseUser)
  /\ IF IsNull(currentUser) THEN FALSE
     ELSE currentUser.uid = "approved" /\ currentUser.approved

\* completeAnalysis has returned for a probability strictly between 0 and 1,
\* nonzero odds on both sides and a bankroll that is not negative
StakedAnalysisReturned ==
  /\ AnalysisReturned
  /\ args.sharpsOdds # 0
  /\ args.pmOdds # 0
  /\ FGt(Ratio(args.yourProbabilityAgainstFav), Num(0))
  /\ FLt(Ratio(args.yourProbabilityAgainstFav), Num(1))
  /\ args.bankroll >= 0

\* C27: the stake never exceeds the bankroll.  For every probability in
\* (0,1), nonzero odds and a bankroll >= 0, completeAnalysis returns
\* 0 <= fullKellyPercent < 1, hence 0 <= quarterKellyBetSize <=
\* halfKellyBetSize <= bankroll/2, and halfKellyBetSize is exactly twice
\* quarterKellyBetSize.
C27_StakeWithinHalfBankroll ==
  StakedAnalysisReturned =>
    /\ FLe(Num(0), ret.fullKellyPercent)
    /\ FLt(ret.fullKellyPercent, Num(1))
    /\ FLe(Num(0), ret.quarterKellyBetSize)
    /\ FLe(ret.quarterKellyBetSize, ret.halfKellyBetSize)
    /\ FLe(ret.halfKellyBetSize, FDiv(Num(args.bankroll), Num(2)))
    /\ FEq(ret.halfKellyBetSize, FMul(Num(2), ret.quarterKellyBetSize))

\* C27 witness: completeAnalysis has returned for the probability 0.99 and a
\* bankroll of 1000 with a Kelly fraction above one half, and the half stake
\* is positive and at most 500
C27_LargeKellyStaked ==
  /\ StakedAnalysisReturned
  /\ args.yourProbabilityAgainstFav = <<99, 100>>
  /\ args.bankroll = 1000
  /\ FGt(ret.fullKellyPercent, FDiv(Num(1), Num(2)))
  /\ FGt(ret.halfKellyBetSize, Num(0))
  /\ FLe(ret.halfKellyBetSize, Num(500))

\* the card has rendered its local values
Rendered == ~IsNull(view)

\* neither odds input of the card is 0
NonzeroInputs == ~IsZero(editableSharpML) /\ ~IsZero(editableBestOfferOdds)

\* the EV of the engine for the inputs of the card
EngineEv == calculateEVPercentage(sharpProb, editableBestOfferOdds)

\* the Kelly fraction of the engine for that EV and the PM input of the card
EngineKelly(engineEv) ==
  calculateKellyCriterion(engineEv, editableBestOfferOdds)

\* the local Kelly division has no zero divisor
NoZeroDivisor ==
  Rendered => \A divisor \in view.kellyDivisors : ~IsZero(divisor)

\* C28 as stated: the client fallback agrees with the engine.  For every pair
\* of nonzero sharp and PM odds, without a backend analysis the local EV of
\* the GameCard (sharpProb*pmDecimal - 1) equals
\* calculateEVPercentage(americanToImpliedProbability(sharp), pm) and its
\* local Kelly percent (ev/(max(sharpDecimal, pmDecimal) - 1) when ev > 0,
\* else 0) equals calculateKellyCriterion(that EV, pm); the local Kelly
\* division never has a zero divisor, even when an odds input is 0.
C28_LocalEqualsEngine ==
  /\ Rendered /\ NonzeroInputs =>
       \A engineEv \in {EngineEv} :
         /\ FEq(view.ev, engineEv)
         /\ FEq(view.kellyPercent, EngineKelly(engineEv))
  /\ NoZeroDivisor

\* C28 amended: the local EV and the local Kelly percent equal the values of
\* the engine up to the rounding error of binary64 arithmetic (within 1e-9),
\* so the two may disagree on the sign of an EV that is 0 in exact
\* arithmetic; the local Kelly division never has a zero divisor, even when
\* an odds input is 0.
C28_LocalWithinRoundingOfEngine ==
  /\ Rendered /\ NonzeroInputs =>
       \A engineEv \in {EngineEv} : \A engineKelly \in {EngineKelly(engineEv)} :
         /\ Within(view.ev, engineEv, RoundingNoise)
         /\ Within(view.kellyPercent, engineKelly, RoundingNoise)
  /\ NoZeroDivisor

\* C28 witness: the card has rendered with the same nonzero price in both
\* inputs, -110, and its local EV and the EV of the engine, both within
\* rounding of 0, are not the same number
C28_EqualPricesEvDiffers ==
  /\ Rendered
  /\ editableSharpML = Num(-110)
  /\ editableBestOfferOdds = Num(-110)
  /\ Within(view.ev, Num(0), RoundingNoise)
  /\ ~FEq(view.ev, EngineEv)

\* a render that divided for its Kelly percent, by more than 0, with the
\* sharp input 0
C28_DividedWithZeroInput ==
  /\ Rendered
  /\ IsZero(editableSharpML)
  /\ view.kellyDivisors # {}
  /\ \A divisor \in view.kellyDivisors : FGt(divisor, Num(0))

\* a conversion of nonzero odds has returned
DecimalReturned ==
  /\ pc = "returned"
  /\ fn = "americanToDecimal"
  /\ args.americanOdds # 0

\* detectArbitrage has returned for two nonzero odds
PairArbitrageReturned ==
  ArbitrageReturned /\ args.oddsA # 0 /\ args.oddsB # 0

\* 1/decimal(a) + 1/decimal(b) for the odds of the call of detectArbitrage
ReciprocalSumOfCall ==
  FAdd(FDiv(Num(1), americanToDecimal(Num(args.oddsA))),
       FDiv(Num(1), americanToDecimal(Num(args.oddsB))))

\* detectArbitrage is symmetric and reports an arbitrage exactly when
\* 1/decimal(a) + 1/decimal(b) < 1
ArbitrageSymmetricAndReciprocal ==
  PairArbitrageReturned =>
    /\ ret = detectArbitrage(Num(args.oddsB), Num(args.oddsA))
    /\ \A reciprocalSum \in {ReciprocalSumOfCall} :
         ret.hasArbitrage <=> FLt(reciprocalSum, Num(1))

HedgedStakeReturned == ScenariosReturned /\ args.betAmount > 0

\* the result of detectArbitrage for the locked odds and candidate i
ArbitrageOfCandidate(i) ==
  detectArbitrage(Num(args.sideAOdds), Num(CandidatesOfCall[i]))

\* the sum of the implied probabilities of the locked odds and candidate i
ProbSumOfCandidate(i) ==
  FAdd(americanToImpliedProbability(Num(args.sideAOdds)),
       americanToImpliedProbability(Num(CandidatesOfCall[i])))

\* the reported profit is not positive where there is no arbitrage
NoReportedProfitWithoutArbitrage ==
  HedgedStakeReturned =>
    \A i \in DOMAIN ret :
      ~ArbitrageOfCandidate(i).hasArbitrage => ~FGt(ret[i].profit, Num(0))

\* C30 as stated: hedge profit and arbitrage detection agree.  For every
\* betAmount > 0 and nonzero odds a, b, the unrounded hedge profit of
\* calculateArbProfitScenarios(a, betAmount, [b]) is strictly positive if and
\* only if detectArbitrage(a, b).hasArbitrage is true, and it is exactly 0
\* when the implied probabilities sum to 1; the reported profit (rounded to
\* cents) is never positive when no arbitrage exists.
C30_ProfitPositiveIffArbitrage ==
  /\ HedgedStakeReturned =>
       \A i \in DOMAIN ret : \A profit \in {HedgeProfitOfCall(i)} :
         /\ FGt(profit, Num(0)) <=> ArbitrageOfCandidate(i).hasArbitrage
         /\ FEq(ProbSumOfCandidate(i), Num(1)) => FEq(profit, Num(0))
  /\ NoReportedProfitWithoutArbitrage

\* C30 amended: when the implied probabilities differ from a sum of 1 by more
\* than 1e-9, the unrounded hedge profit is strictly positive if and only if
\* detectArbitrage(a, b).hasArbitrage is true; when they sum to 1 the
\* unrounded profit is 0 up to the rounding error of binary64 arithmetic
\* (within 1e-9 for the modelled stakes) and may be of either sign; the
\* reported profit (rounded to cents) is never positive when no arbitrage
\* exists.
C30_ProfitSignAwayFromEvenSum ==
  /\ HedgedStakeReturned =>
       \A i \in DOMAIN ret : \A profit \in {HedgeProfitOfCall(i)} :
       \A probSum \in {ProbSumOfCandidate(i)} :
         /\ ~Within(probSum, Num(1), RoundingNoise)
              => (FGt(profit, Num(0)) <=> ArbitrageOfCandidate(i).hasArbitrage)
         /\ FEq(probSum, Num(1)) => Within(profit, Num(0), RoundingNoise)
  /\ NoReportedProfitWithoutArbitrage

\* C30 witness: -110 was locked with a stake of 1000 and hedged at +110, two
\* prices whose probabilities sum to 1; the unrounded profit is not 0, the
\* reported profit is not positive and no arbitrage is detected
C30_EvenSumProfitOffZero ==
  /\ HedgedStakeReturned
  /\ args.sideAOdds = -110
  /\ args.betAmount = 1000
  /\ \E i \in DOMAIN ret :
       /\ CandidatesOfCall[i] = 110
       /\ FEq(ProbSumOfCandidate(i), Num(1))
       /\ ~FEq(HedgeProfitOfCall(i), Num(0))
       /\ ~FGt(ret[i].profit, Num(0))
       /\ ~ArbitrageOfCandidate(i).hasArbitrage

=============================================================================
